---- MODULE Spec2Model ----
(***************************************************************************)
(* Model of the classify_device tool of fda-devices-mcp (src/index.ts):    *)
(* synonym expansion, combinatorial broadening under a call budget,        *)
(* relevance scoring and the 510(k) bridge fallback.                       *)
(*                                                                         *)
(* Strings are TLA+ strings; TLC treats them as sequences of characters,   *)
(* so toLowerCase, trim, split, join and includes are computed character   *)
(* by character.  JavaScript indices are 0-based, the model's are 1-based. *)
(* An absent optional string argument (undefined) and the empty string are *)
(* both falsy in every test the handler makes of them; both are "".        *)
(***************************************************************************)
EXTENDS Integers, Sequences, FiniteSets, TLC

VARIABLES
    pc,                   \* where the handler is: idle, direct, primary, bridge, lookup, search, done
    tool,                 \* the tool that was invoked ("" before the call)
    args,                 \* the arguments the tool was invoked with
    product_code,         \* local product_code after auto-detection ("" when absent)
    query,                \* local query after auto-detection ("" when absent)
    originalTerms,        \* query.trim().split(/\s+/)
    expandedTerms,        \* expandSynonyms(originalTerms)
    termSets,             \* term lists the broadening loop walks
    tsIdx,                \* index of the current term-set
    termsToUse,           \* filler-filtered terms of the current term-set
    combos,               \* ordered attempt list of the current term-set
    comboIdx,             \* index of the current combination
    fieldIdx,             \* index of the current field
    apiCalls,             \* the handler's call counter
    bestWeak,             \* best weak response so far, or NoWeak
    budgetHit,            \* history: a budget check stopped the loop with work left
    calls,                \* history: the Direct, broadening and 510(k) requests, in order
    lookupCalls,          \* history: the lookups made for the current 510(k) response
    nCalls,               \* history: number of queryOpenFDA invocations so far
    nAnswered,            \* history: number of queryOpenFDA invocations that have returned
    lastData,             \* history: the response received last
    sawCandidates,        \* history: some broadening request returned records
    tries,                \* history: the attempts of the broadening loop, in order
    bestSeen,             \* history: the earliest best-scoring non-empty broadening response
    pending,              \* the invocation awaiting its response
    bTsIdx,               \* bridge: index of the current term-set
    topCombos,            \* bridge: candidate queries of the current term-set
    bComboIdx,            \* bridge: index of the current candidate
    seen510k,             \* bridge: keys of the candidates already queried
    bridgeData,           \* bridge: the 510(k) response being resolved
    productCodes,         \* bridge: distinct codes of bridgeData, insertion order
    codeIdx,              \* bridge: index of the code being looked up
    classificationResults,\* bridge: classification records found so far
    outcome,              \* tag of the returned response ("" while running)
    response,             \* payload of the returned response
    unitIn,               \* argument of the function under test
    unitOut,              \* its result
    other,                \* the locals of a second call of the handler, suspended at an await
    callNo                \* which of the two calls the variables above belong to

handlerVars == <<pc, tool, args, product_code, query, originalTerms, expandedTerms, termSets,
                 tsIdx, termsToUse, combos, comboIdx, fieldIdx, apiCalls, bestWeak,
                 budgetHit, calls, lookupCalls, nCalls, nAnswered, lastData, sawCandidates,
                 tries, bestSeen,
                 pending, outcome,
                 response>>
bridgeVars == <<bTsIdx, topCombos, bComboIdx, seen510k, bridgeData, productCodes,
                codeIdx, classificationResults>>
unitVars == <<unitIn, unitOut>>
callVars == <<other, callNo>>
vars == <<handlerVars, bridgeVars, unitVars, callVars>>

---------------------------------------------------------------------------
(* Characters and strings                                                  *)

UpperAlpha == "ABCDEFGHIJKLMNOPQRSTUVWXYZ"
LowerAlpha == "abcdefghijklmnopqrstuvwxyz"
Digits == "0123456789"

CharsOf(s) == {SubSeq(s, i, i) : i \in 1..Len(s)}
CharAt(s, i) == SubSeq(s, i, i)

UpperChars == CharsOf(UpperAlpha)
LowerChars == CharsOf(LowerAlpha)
DigitChars == CharsOf(Digits)

ToLowerMap ==
    [c \in UpperChars |-> CharAt(LowerAlpha, CHOOSE i \in 1..Len(UpperAlpha) : CharAt(UpperAlpha, i) = c)]
ToUpperMap ==
    [c \in LowerChars |-> CharAt(UpperAlpha, CHOOSE i \in 1..Len(LowerAlpha) : CharAt(LowerAlpha, i) = c)]

\* the whitespace characters of \s and trim() that the inputs may hold
IsSpace(c) == c \in {" ", "\t", "\n", "\r"}
IsDigit(c) == c \in DigitChars
IsLetter(c) == c \in UpperChars \/ c \in LowerChars

LowerChar(c) == IF c \in UpperChars THEN ToLowerMap[c] ELSE c
UpperChar(c) == IF c \in LowerChars THEN ToUpperMap[c] ELSE c

RECURSIVE toLowerCase(_)
toLowerCase(s) ==
    IF s = "" THEN "" ELSE LowerChar(CharAt(s, 1)) \o toLowerCase(SubSeq(s, 2, Len(s)))

RECURSIVE toUpperCase(_)
toUpperCase(s) ==
    IF s = "" THEN "" ELSE UpperChar(CharAt(s, 1)) \o toUpperCase(SubSeq(s, 2, Len(s)))

RECURSIVE trimStart(_)
trimStart(s) ==
    IF s # "" /\ IsSpace(CharAt(s, 1)) THEN trimStart(SubSeq(s, 2, Len(s))) ELSE s

RECURSIVE trimEnd(_)
trimEnd(s) ==
    IF s # "" /\ IsSpace(CharAt(s, Len(s))) THEN trimEnd(SubSeq(s, 1, Len(s) - 1)) ELSE s

trim(s) == trimEnd(trimStart(s))

\* s.split(/\s+/): the pieces between maximal whitespace runs; a leading or
\* trailing run leaves an empty piece, and "" splits into <<"">>.
RECURSIVE SplitScan(_, _, _, _)
SplitScan(s, i, cur, acc) ==
    IF i > Len(s) THEN Append(acc, cur)
    ELSE IF IsSpace(CharAt(s, i))
         THEN IF i > 1 /\ IsSpace(CharAt(s, i - 1))
              THEN SplitScan(s, i + 1, cur, acc)
              ELSE SplitScan(s, i + 1, "", Append(acc, cur))
         ELSE SplitScan(s, i + 1, cur \o CharAt(s, i), acc)

splitWs(s) == SplitScan(s, 1, "", <<>>)

RECURSIVE join(_, _)
join(seq, sep) ==
    IF Len(seq) = 0 THEN ""
    ELSE IF Len(seq) = 1 THEN seq[1]
    ELSE seq[1] \o sep \o join(Tail(seq), sep)

includes(text, s) ==
    \E i \in 0..(Len(text) - Len(s)) : SubSeq(text, i + 1, i + Len(s)) = s

SeqsUpTo(S, n) == UNION {[1..k -> S] : k \in 0..n}

AllMatch(s, P(_)) == \A i \in 1..Len(s) : P(CharAt(s, i))

RECURSIVE Pow2(_)
Pow2(n) == IF n = 0 THEN 1 ELSE 2 * Pow2(n - 1)

---------------------------------------------------------------------------
(* Validation                                                              *)

\* faulty variant: the i flag is lost
PRODUCT_CODE_RE_CaseSensitive(s) == Len(s) = 3 /\ AllMatch(s, LAMBDA c : c \in UpperChars)

\* /^[A-Z]{3}$/i
PRODUCT_CODE_RE(s) == Len(s) = 3 /\ AllMatch(s, IsLetter)

\* /^K\d{6,7}$/i
K_NUMBER_RE(s) ==
    /\ Len(s) \in {7, 8}
    /\ CharAt(s, 1) \in {"K", "k"}
    /\ AllMatch(SubSeq(s, 2, Len(s)), IsDigit)

\* /^P\d{6}$/i
PMA_NUMBER_RE(s) ==
    /\ Len(s) = 7
    /\ CharAt(s, 1) \in {"P", "p"}
    /\ AllMatch(SubSeq(s, 2, Len(s)), IsDigit)

\* validateProductCode: "" stands for null (valid), otherwise the kind of error
validateProductCode(value) ==
    IF K_NUMBER_RE(value) THEN "looks like a 510(k) number"
    ELSE IF PMA_NUMBER_RE(value) THEN "looks like a PMA number"
    ELSE IF ~PRODUCT_CODE_RE(value) THEN "not a valid 3-letter product code"
    ELSE ""

---------------------------------------------------------------------------
(* Synonym map                                                             *)

SYNONYMS ==
    "ecg" :> <<"electrocardiograph">> @@
    "ekg" :> <<"electrocardiograph">> @@
    "robot" :> <<"computer controlled instrument">> @@
    "robotic" :> <<"computer controlled instrument">> @@
    "bp" :> <<"blood pressure">> @@
    "cgm" :> <<"continuous glucose monitor">> @@
    "ai" :> <<"artificial intelligence">> @@
    "mri" :> <<"magnetic resonance imaging">> @@
    "ct" :> <<"computed tomography">> @@
    "xray" :> <<"x-ray">> @@
    "x-ray" :> <<"radiographic">> @@
    "ultrasound" :> <<"ultrasonic">> @@
    "cpap" :> <<"continuous positive airway pressure">> @@
    "tens" :> <<"transcutaneous electrical nerve stimulation">> @@
    "iud" :> <<"intrauterine">> @@
    "stent" :> <<"endoprosthesis">> @@
    "pacemaker" :> <<"pulse generator">> @@
    "defibrillator" :> <<"defibrillator">> @@
    "ventilator" :> <<"ventilator">> @@
    "catheter" :> <<"catheter">> @@
    "laser" :> <<"laser">> @@
    "pump" :> <<"infusion pump">> @@
    "thermometer" :> <<"thermometer">> @@
    "oximeter" :> <<"oximeter">> @@
    "hearing" :> <<"hearing aid">> @@
    "insulin" :> <<"insulin">> @@
    "dialysis" :> <<"hemodialysis">> @@
    "prosthetic" :> <<"prosthesis">> @@
    "implant" :> <<"implant">> @@
    "endoscope" :> <<"endoscope">> @@
    "monitor" :> <<"monitor">> @@
    "wearable" :> <<"wearable">> @@
    "patch" :> <<"ambulatory">> @@
    "portable" :> <<"portable">> @@
    "wireless" :> <<"wireless">> @@
    "bluetooth" :> <<"wireless">> @@
    "home" :> <<"home use">> @@
    "otc" :> <<"over-the-counter">> @@
    "samd" :> <<"software">> @@
    "software device" :> <<"software">> @@
    "app" :> <<"software", "mobile">> @@
    "cad" :> <<"computer aided detection">> @@
    "cad-x" :> <<"computer aided diagnosis">> @@
    "triage" :> <<"triage">> @@
    "diagnostic" :> <<"diagnostic">> @@
    "screening" :> <<"screening">> @@
    "imaging" :> <<"image processing">> @@
    "ehr" :> <<"electronic health record">> @@
    "clinical" :> <<"clinical decision support">> @@
    "cds" :> <<"clinical decision support">> @@
    "ml" :> <<"machine learning">> @@
    "deep learning" :> <<"machine learning">> @@
    "algorithm" :> <<"algorithm">> @@
    "waveform" :> <<"electrocardiograph">> @@
    "heart monitor" :> <<"electrocardiograph">> @@
    "heart rate" :> <<"heart rate">> @@
    "blood sugar" :> <<"glucose">> @@
    "glucometer" :> <<"glucose meter">> @@
    "spo2" :> <<"oximeter">> @@
    "sleep apnea" :> <<"sleep apnea">> @@
    "mammography" :> <<"mammograph">> @@
    "mammogram" :> <<"mammograph">> @@
    "polyp" :> <<"lesion">> @@
    "colonoscopy" :> <<"endoscope gastrointestinal">> @@
    "endoscopy" :> <<"endoscope">> @@
    "dental" :> <<"dental">> @@
    "dermatology" :> <<"dermatoscope">> @@
    "retinal" :> <<"retinal">> @@
    "fundus" :> <<"fundus">> @@
    "stroke" :> <<"stroke">> @@
    "aneurysm" :> <<"aneurysm">> @@
    "fracture" :> <<"fracture">> @@
    "tumor" :> <<"lesion">> @@
    "cancer" :> <<"cancer">> @@
    "detection" :> <<"detection">> @@
    "diagnosis" :> <<"diagnosis">>

\* SYNONYMS is a plain object literal, so SYNONYMS[key] also finds the
\* properties it inherits from Object.prototype: functions (and, for
\* __proto__, the prototype object), all truthy and none iterable.
OBJECT_PROTOTYPE_KEYS ==
    {"constructor", "__proto__", "hasOwnProperty", "isPrototypeOf",
     "propertyIsEnumerable", "toLocaleString", "toString", "valueOf",
     "__defineGetter__", "__defineSetter__", "__lookupGetter__", "__lookupSetter__"}

\* the truthiness test `if (SYNONYMS[key])`
SynonymHit(key) == key \in DOMAIN SYNONYMS \/ key \in OBJECT_PROTOTYPE_KEYS

\* whether iterating SYNONYMS[key] (for..of, flatMap) throws a TypeError
SynonymThrows(key) == key \notin DOMAIN SYNONYMS /\ key \in OBJECT_PROTOTYPE_KEYS

---------------------------------------------------------------------------
(* expandSynonyms                                                          *)

\* the inner loops over one table entry: push every word not seen yet
RECURSIVE PushWords(_, _)
PushWords(words, acc) ==
    IF Len(words) = 0 THEN acc
    ELSE LET word == Head(words)
             lower == toLowerCase(word)
         IN  PushWords(Tail(words),
                       IF lower \notin acc.seen
                       THEN [expanded |-> Append(acc.expanded, word),
                             seen |-> acc.seen \cup {lower}]
                       ELSE acc)

RECURSIVE PushSynonyms(_, _)
PushSynonyms(syns, acc) ==
    IF Len(syns) = 0 THEN acc
    ELSE PushSynonyms(Tail(syns), PushWords(splitWs(Head(syns)), acc))

ExpandTerm(term, acc) ==
    LET key == toLowerCase(term)
    IN  IF SynonymHit(key)
        THEN PushSynonyms(SYNONYMS[key], acc)
        ELSE IF key \notin acc.seen
             THEN [expanded |-> Append(acc.expanded, term), seen |-> acc.seen \cup {key}]
             ELSE acc

RECURSIVE ExpandLoop(_, _)
ExpandLoop(terms, acc) ==
    IF Len(terms) = 0 THEN acc
    ELSE ExpandLoop(Tail(terms), ExpandTerm(Head(terms), acc))

\* expandSynonyms throws (TypeError: not iterable) at the first term whose
\* lookup finds an inherited property
expandSynonymsThrows(terms) ==
    \E i \in 1..Len(terms) : SynonymThrows(toLowerCase(terms[i]))

\* its return value when it does not throw
expandSynonyms(terms) ==
    ExpandLoop(terms, [expanded |-> <<>>, seen |-> {}]).expanded

---------------------------------------------------------------------------
(* generateCombinations / getCombinationIndices                            *)

\* function* combine(start, picked): the index lists it yields, in order
RECURSIVE combine(_, _, _, _)
RECURSIVE combineFrom(_, _, _, _)
combine(n, size, start, picked) ==
    IF Len(picked) = size THEN <<picked>>
    ELSE combineFrom(n, size, start, picked)

combineFrom(n, size, i, picked) ==
    IF i > n THEN <<>>
    ELSE combine(n, size, i + 1, Append(picked, i)) \o combineFrom(n, size, i + 1, picked)

isContiguous(combo) ==
    \A i \in 2..Len(combo) : combo[i] = combo[i - 1] + 1

\* faulty variant: the combinations are returned in enumeration order, unpartitioned
getCombinationIndicesUnsorted(n, size) == combine(n, size, 1, <<>>)

getCombinationIndices(n, size) ==
    LET all == combine(n, size, 1, <<>>)
        contiguous == SelectSeq(all, isContiguous)
        nonContiguous == SelectSeq(all, LAMBDA c : ~isContiguous(c))
    IN  contiguous \o nonContiguous

\* faulty variant: the size loop stops before the single terms
RECURSIVE IndicesFromSizeNoSingles(_, _)
IndicesFromSizeNoSingles(n, size) ==
    IF size <= 1 THEN <<>>
    ELSE getCombinationIndices(n, size) \o IndicesFromSizeNoSingles(n, size - 1)

\* the index lists behind generateCombinations' output for n > 1 terms
RECURSIVE IndicesFromSize(_, _)
IndicesFromSize(n, size) ==
    IF size < 1 THEN <<>>
    ELSE getCombinationIndices(n, size) \o IndicesFromSize(n, size - 1)

PickTerms(terms, idx) == [k \in 1..Len(idx) |-> terms[idx[k]]]

generateCombinations(terms) ==
    IF Len(terms) <= 1 THEN <<terms>>
    ELSE LET indices == IndicesFromSize(Len(terms), Len(terms))
         IN  [k \in 1..Len(indices) |-> PickTerms(terms, indices[k])]

---------------------------------------------------------------------------
(* Numbers: the IEEE 754 binary64 arithmetic scoreResults performs          *)
(*                                                                         *)
(* A non-negative double is held as a fixed-point binary number of         *)
(* DBL_LIMBS limbs of DBL_LIMB_BITS binary digits each, most significant   *)
(* limb first, with DBL_INT_BITS digits before the binary point.  Every    *)
(* value computed here is 0 or lies in [2^-12, 2^8), so its 53 significant *)
(* digits and the digit after them fit in the window.                      *)

\* significand digits of a binary64 number
DBL_PRECISION == 53
DBL_LIMB_BITS == 16
DBL_LIMBS == 5
DBL_INT_BITS == 8
DBL_WIDTH == DBL_LIMBS * DBL_LIMB_BITS
DBL_LIMB == 2 ^ DBL_LIMB_BITS

DblZero == [i \in 1..DBL_LIMBS |-> 0]

\* the integer k, 0 <= k < 2^DBL_INT_BITS, as a double (exact)
DblFromInt(k) ==
    [i \in 1..DBL_LIMBS |-> IF i = 1 THEN k * 2 ^ (DBL_LIMB_BITS - DBL_INT_BITS) ELSE 0]

DblOne == DblFromInt(1)

\* long division of the limbs x by the integer d, 0 < d < 2^DBL_INT_BITS:
\* the quotient and whether a remainder is left below the window
RECURSIVE LongDiv(_, _, _, _, _)
LongDiv(x, i, d, r, q) ==
    IF i > Len(x) THEN [limbs |-> q, sticky |-> r # 0]
    ELSE LET v == r * DBL_LIMB + x[i]
         IN  LongDiv(x, i + 1, d, v % d, Append(q, v \div d))

\* exact addition, least significant limb first
RECURSIVE AddLimbs(_, _, _, _, _)
AddLimbs(x, y, i, carry, acc) ==
    IF i = 0 THEN acc
    ELSE LET s == x[i] + y[i] + carry
         IN  AddLimbs(x, y, i - 1, s \div DBL_LIMB, <<s % DBL_LIMB>> \o acc)

\* number of binary digits of v, 0 < v < DBL_LIMB
BitLength(v) == CHOOSE n \in 1..DBL_LIMB_BITS : 2 ^ (n - 1) <= v /\ v < 2 ^ n

\* position (1 = most significant digit of the window) of the leading 1, or 0
LeadingOne(x) ==
    IF \A i \in 1..Len(x) : x[i] = 0 THEN 0
    ELSE LET j == CHOOSE j \in 1..Len(x) : x[j] # 0 /\ \A k \in 1..(j - 1) : x[k] = 0
         IN  (j - 1) * DBL_LIMB_BITS + (DBL_LIMB_BITS - BitLength(x[j])) + 1

\* the limb holding digit position q, and the weight of that digit in its limb
LimbOf(q) == ((q - 1) \div DBL_LIMB_BITS) + 1
WeightOf(q) == 2 ^ (DBL_LIMB_BITS - 1 - ((q - 1) % DBL_LIMB_BITS))

BitAt(x, q) == (x[LimbOf(q)] \div WeightOf(q)) % 2

\* some digit strictly below position q is 1
AnyBelow(x, q) ==
    \/ x[LimbOf(q)] % WeightOf(q) # 0
    \/ \E k \in (LimbOf(q) + 1)..Len(x) : x[k] # 0

\* round to nearest, ties to even, at DBL_PRECISION significant digits;
\* sticky tells that the exact value has further digits below the window
RoundNearestEven(x, sticky) ==
    LET p == LeadingOne(x)
        last == p + DBL_PRECISION - 1
    IN  IF p = 0 \/ last >= DBL_WIDTH THEN x
        ELSE LET guard == BitAt(x, last + 1)
                 rest == sticky \/ AnyBelow(x, last + 1)
                 kept == [i \in 1..Len(x) |->
                            IF i < LimbOf(last) THEN x[i]
                            ELSE IF i = LimbOf(last)
                            THEN (x[i] \div WeightOf(last)) * WeightOf(last)
                            ELSE 0]
                 ulp == [i \in 1..Len(x) |-> IF i = LimbOf(last) THEN WeightOf(last) ELSE 0]
             IN  IF guard = 1 /\ (rest \/ BitAt(x, last) = 1)
                 THEN AddLimbs(kept, ulp, Len(x), 0, <<>>)
                 ELSE kept

\* x / k for a double x and an integer k, 0 < k < 2^DBL_INT_BITS
DblDiv(x, k) ==
    CHOOSE r \in {RoundNearestEven(d.limbs, d.sticky) : d \in {LongDiv(x, 1, k, 0, <<>>)}} : TRUE

\* x + y
DblAdd(x, y) ==
    CHOOSE r \in {RoundNearestEven(s, FALSE) : s \in {AddLimbs(x, y, DBL_LIMBS, 0, <<>>)}} : TRUE

\* x < y
DblLess(x, y) ==
    \E i \in 1..DBL_LIMBS : x[i] < y[i] /\ \A j \in 1..(i - 1) : x[j] = y[j]

---------------------------------------------------------------------------
(* scoreResults                                                            *)

\* matchStrings of one original term; [lower, ...expansions]
matchStrings(t) ==
    LET lower == toLowerCase(t)
        RECURSIVE Flat(_)
        Flat(syns) ==
            IF Len(syns) = 0 THEN <<>>
            ELSE splitWs(toLowerCase(Head(syns))) \o Flat(Tail(syns))
    IN  <<lower>> \o (IF SynonymHit(lower) THEN Flat(SYNONYMS[lower]) ELSE <<>>)

recordText(r) == toLowerCase(r.device_name) \o " " \o toLowerCase(r.definition)

\* faulty variant: only the term itself is looked for, not its expansions
coveredWithoutSynonyms(r, coverageMap) ==
    LET text == toLowerCase(r.device_name) \o " " \o toLowerCase(r.definition)
    IN  Cardinality({i \in 1..Len(coverageMap) : includes(text, coverageMap[i][1])})

\* covered, for one record, given the coverage map (match strings per term)
covered(r, coverageMap) ==
    LET text == recordText(r)
    IN  Cardinality({i \in 1..Len(coverageMap) :
            \E k \in 1..Len(coverageMap[i]) : includes(text, coverageMap[i][k])})

\* the loop over the records: totalScore += covered / originalTerms.length
RECURSIVE TotalScore(_, _, _)
TotalScore(results, coverageMap, totalScore) ==
    IF Len(results) = 0 THEN totalScore
    ELSE TotalScore(Tail(results), coverageMap,
                    DblAdd(totalScore,
                           DblDiv(DblFromInt(covered(Head(results), coverageMap)),
                                  Len(coverageMap))))

scoreResults(results, originalTerms_) ==
    IF Len(results) = 0 \/ Len(originalTerms_) = 0 THEN DblZero
    ELSE CHOOSE score \in
            {DblDiv(TotalScore(results, coverageMap, DblZero), Len(results)) :
                coverageMap \in {[i \in 1..Len(originalTerms_) |->
                                    matchStrings(originalTerms_[i])]}} : TRUE

\* score > bestWeak.score and score >= RELEVANCE_THRESHOLD
ScoreGreater(a, b) == DblLess(b, a)
ScoreAtLeast(a, b) == ~DblLess(a, b)

\* RELEVANCE_THRESHOLD = 0.4: the double nearest to 2/5
RELEVANCE_THRESHOLD == DblDiv(DblFromInt(2), 5)

---------------------------------------------------------------------------
(* buildSearchTerms and the request                                         *)

buildSearchTerms(field, q) ==
    LET terms == splitWs(trim(q))
    IN  IF Len(terms) = 1 THEN field \o ":" \o terms[1]
        ELSE join([k \in 1..Len(terms) |-> field \o ":" \o terms[k]], "+AND+")

---------------------------------------------------------------------------
(* classify_device: constants and the broadening loop's order              *)

NoCall == [site |-> "", endpoint |-> "", search |-> <<>>]
NoData == [error |-> "", results |-> <<>>]
NoResponse == [kind |-> ""]
\* bestWeak = null
NoWeak == [score |-> DblZero, data |-> NoData, url |-> NoCall]
\* no response seen yet
NoSeen == [score |-> DblZero, data |-> NoData, url |-> NoCall, try |-> 0]

\* the handler before it is invoked
HandlerIdle ==
    /\ tool = ""
    /\ args = [product_code |-> "", query |-> ""]
    /\ product_code = "" /\ query = ""
    /\ originalTerms = <<>> /\ expandedTerms = <<>> /\ termSets = <<>>
    /\ tsIdx = 0 /\ termsToUse = <<>> /\ combos = <<>> /\ comboIdx = 0 /\ fieldIdx = 0
    /\ apiCalls = 0 /\ bestWeak = NoWeak /\ budgetHit = FALSE
    /\ calls = <<>> /\ lookupCalls = <<>> /\ nCalls = 0 /\ pending = NoCall
    /\ nAnswered = 0 /\ lastData = NoData /\ sawCandidates = FALSE
    /\ tries = <<>> /\ bestSeen = NoSeen
    /\ bTsIdx = 0 /\ topCombos = <<>> /\ bComboIdx = 0 /\ seen510k = {}
    /\ bridgeData = NoData /\ productCodes = <<>> /\ codeIdx = 0
    /\ classificationResults = <<>>
    /\ outcome = "" /\ response = NoResponse

MAX_API_CALLS == 30

FILLER_WORDS ==
    {"a", "an", "the", "for", "of", "in", "on", "to", "and", "or", "is", "it",
     "what", "how", "which", "my", "with", "from", "that", "this",
     "fda", "class", "device", "medical", "need", "does"}

FIELDS == <<"device_name", "definition">>

\* faulty variant: the budget test off by one
BudgetExhaustedLate(n) == n > MAX_API_CALLS

\* faulty variant: the counter is left as it is
CountCallNever(n) == n

\* apiCalls++
CountCall(n) == n + 1

\* the two `if (apiCalls >= MAX_API_CALLS) break;` tests
BudgetExhausted(n) == n >= MAX_API_CALLS

\* faulty variant: only the filler words are dropped, one-character terms stay
TermsToUseFillersOnly(terms) ==
    LET meaningful == SelectSeq(terms, LAMBDA t : toLowerCase(t) \notin FILLER_WORDS)
    IN  IF Len(meaningful) >= 2 THEN meaningful ELSE terms

\* meaningful.length >= 2 ? meaningful : terms
TermsToUse(terms) ==
    LET meaningful == SelectSeq(terms,
            LAMBDA t : toLowerCase(t) \notin FILLER_WORDS /\ Len(t) > 1)
    IN  IF Len(meaningful) >= 2 THEN meaningful ELSE terms

\* [...fullLength, ...shortCombos, ...mediumCombos, ...singles]
OrderedCombos(terms) ==
    LET allCombos == generateCombinations(terms)
        n == Len(terms)
        fullLength == SelectSeq(allCombos, LAMBDA c : Len(c) = n)
        shortCombos == SelectSeq(allCombos, LAMBDA c : Len(c) >= 2 /\ Len(c) <= 3 /\ Len(c) < n)
        mediumCombos == SelectSeq(allCombos, LAMBDA c : Len(c) > 3 /\ Len(c) < n)
        singles == SelectSeq(allCombos, LAMBDA c : Len(c) = 1)
    IN  fullLength \o shortCombos \o mediumCombos \o singles

\* A request is the endpoint and searchParts handed to queryOpenFDA; `site`
\* names the call site (direct, primary, bridge, lookup).
\* the request of one attempt: queryOpenFDA("classification", searchParts)
PrimaryCall(combo, field) ==
    [site |-> "primary", endpoint |-> "classification",
     search |-> <<buildSearchTerms(field, join(combo, " "))>>]

DirectCall(code) ==
    [site |-> "direct", endpoint |-> "classification",
     search |-> <<"product_code:" \o toUpperCase(code)>>]

\* faulty variant: an answer carrying an error counts as an answer with results
HasResultsOrError(data) == data.error # "" \/ Len(data.results) > 0

\* !data.error && data.results && data.results.length > 0
HasResults(data) == data.error = "" /\ Len(data.results) > 0

\* faulty variant: a full-length match no longer counts as strong
IsStrongByScoreOnly(comboLen, nTerms, score) == ScoreAtLeast(score, RELEVANCE_THRESHOLD)

\* faulty variant: the relevance test is lost, only a full-length match is strong
IsStrongByLengthOnly(comboLen, nTerms, score) == comboLen >= nTerms

\* combo.length >= termsToUse.length || score >= RELEVANCE_THRESHOLD
IsStrong(comboLen, nTerms, score) ==
    comboLen >= nTerms \/ ScoreAtLeast(score, RELEVANCE_THRESHOLD)

\* faulty variant: the `!bestWeak ||` alternative is lost
ReplacesWeakNeverFirst(bw, score) == bw # NoWeak /\ ScoreGreater(score, bw.score)

\* faulty variant: an equal score replaces the recorded candidate too
ReplacesWeakOnTies(bw, score) == bw = NoWeak \/ ~DblLess(score, bw.score)

\* !bestWeak || score > bestWeak.score
ReplacesWeak(bw, score) == bw = NoWeak \/ ScoreGreater(score, bw.score)

\* faulty variant: the truthiness of the score is tested, so a score of 0 is dropped
HasWeakPositive(bw) == bw # NoWeak /\ bw.score # DblZero

\* if (bestWeak) after the loops
HasWeak(bw) == bw # NoWeak

\* The three nested loops, resumed at field f of combination c of the current
\* term-set, up to the next request or the end of the loops.  `hit` records
\* that one of the budget tests broke out of a loop.
FieldsFrom(f, n) ==
    IF f > Len(FIELDS) THEN [kind |-> "end"]
    ELSE IF BudgetExhausted(n) THEN [kind |-> "break"]
    ELSE [kind |-> "call", f |-> f]

RECURSIVE CombosFrom(_, _, _, _, _)
CombosFrom(cmbs, c, f, n, hit) ==
    IF c > Len(cmbs) THEN [kind |-> "end", hit |-> hit]
    ELSE IF f = 1 /\ BudgetExhausted(n) THEN [kind |-> "end", hit |-> TRUE]
    ELSE LET r == FieldsFrom(f, n)
         IN  IF r.kind = "call" THEN [kind |-> "call", c |-> c, f |-> r.f, hit |-> hit]
             ELSE CombosFrom(cmbs, c + 1, 1, n, hit \/ r.kind = "break")

RECURSIVE TermSetsFrom(_, _, _, _, _, _, _, _)
TermSetsFrom(tsets, ts, use, cmbs, c, f, n, hit) ==
    LET r == CombosFrom(cmbs, c, f, n, hit)
    IN  IF r.kind = "call"
        THEN [kind |-> "call", ts |-> ts, termsToUse |-> use, combos |-> cmbs,
              c |-> r.c, f |-> r.f, hit |-> r.hit]
        ELSE IF ts >= Len(tsets) THEN [kind |-> "exit", hit |-> r.hit]
        ELSE LET nextUse == TermsToUse(tsets[ts + 1])
             IN  TermSetsFrom(tsets, ts + 1, nextUse, OrderedCombos(nextUse), 1, 1, n, r.hit)

\* faulty variant: the original terms are tried before the expanded ones
TermSetsOriginalFirst(exp, orig) ==
    <<orig>> \o (IF join(exp, " ") # join(orig, " ") THEN <<exp>> ELSE <<>>)

\* termSets: expanded first (if different), then original
TermSetsOf(exp, orig) ==
    LET hasExpansion == join(exp, " ") # join(orig, " ")
    IN  (IF hasExpansion THEN <<exp>> ELSE <<>>) \o <<orig>>

\* the loops from their start
LoopStart(tsets, n) ==
    LET use == TermsToUse(tsets[1])
    IN  TermSetsFrom(tsets, 1, use, OrderedCombos(use), 1, 1, n, FALSE)

---------------------------------------------------------------------------
(* bridgeVia510k                                                           *)

GENERIC_510K_TERMS ==
    {"artificial", "intelligence", "machine", "learning", "software", "device",
     "system", "detection", "screening", "diagnosis", "diagnostic", "analysis",
     "monitor", "automated", "computer", "digital", "algorithm", "image",
     "processing", "aided", "based", "clinical", "decision", "support"}

\* pairAndUp = combos.filter(c => c.length >= 2).slice(0, 8)
PAIR_AND_UP_LIMIT == 8
\* medicalTerms.filter(t => t.length >= 5)
MEDICAL_SINGLE_MIN == 5
\* data.results.slice(0, 5)
EXAMPLE_LIMIT == 5

FirstN(seq, n) == SubSeq(seq, 1, IF Len(seq) < n THEN Len(seq) ELSE n)

\* topCombos = [...pairAndUp, ...medicalSingles]
\* faulty variant: every combination of two or more terms is a candidate
BridgeTopCombosUncapped(terms) ==
    LET medicalTerms == SelectSeq(terms, LAMBDA t : toLowerCase(t) \notin GENERIC_510K_TERMS)
        cmbs == generateCombinations(terms)
        pairAndUp == SelectSeq(cmbs, LAMBDA c : Len(c) >= 2)
        longTerms == SelectSeq(medicalTerms, LAMBDA t : Len(t) >= MEDICAL_SINGLE_MIN)
        medicalSingles == [k \in 1..Len(longTerms) |-> <<longTerms[k]>>]
    IN  pairAndUp \o medicalSingles

BridgeTopCombos(terms) ==
    LET medicalTerms == SelectSeq(terms, LAMBDA t : toLowerCase(t) \notin GENERIC_510K_TERMS)
        cmbs == generateCombinations(terms)
        pairAndUp == FirstN(SelectSeq(cmbs, LAMBDA c : Len(c) >= 2), PAIR_AND_UP_LIMIT)
        longTerms == SelectSeq(medicalTerms, LAMBDA t : Len(t) >= MEDICAL_SINGLE_MIN)
        medicalSingles == [k \in 1..Len(longTerms) |-> <<longTerms[k]>>]
    IN  pairAndUp \o medicalSingles

BridgeKey(combo) == join(combo, "+")

BridgeCall(combo) ==
    [site |-> "bridge", endpoint |-> "510k",
     search |-> <<buildSearchTerms("device_name", join(combo, " "))>>]

LookupCall(code) ==
    [site |-> "lookup", endpoint |-> "classification", search |-> <<"product_code:" \o code>>]

\* faulty variant: the bridge gives up after its first term-set
RECURSIVE BridgeFromFirstSetOnly(_, _, _, _, _)
BridgeFromFirstSetOnly(bsets, ts, top, c, seen) ==
    IF c > Len(top) THEN [kind |-> "exit"]
    ELSE IF BridgeKey(top[c]) \in seen THEN BridgeFromFirstSetOnly(bsets, ts, top, c + 1, seen)
    ELSE [kind |-> "call", ts |-> ts, top |-> top, c |-> c,
          seen |-> seen \cup {BridgeKey(top[c])}]

\* the two loops of bridgeVia510k, resumed at candidate c of term-set ts, up
\* to the next candidate not queried yet or the end (return null)
RECURSIVE BridgeFrom(_, _, _, _, _)
BridgeFrom(bsets, ts, top, c, seen) ==
    IF c > Len(top)
    THEN IF ts >= Len(bsets) THEN [kind |-> "exit"]
         ELSE BridgeFrom(bsets, ts + 1, BridgeTopCombos(bsets[ts + 1]), 1, seen)
    ELSE IF BridgeKey(top[c]) \in seen THEN BridgeFrom(bsets, ts, top, c + 1, seen)
    ELSE [kind |-> "call", ts |-> ts, top |-> top, c |-> c,
          seen |-> seen \cup {BridgeKey(top[c])}]

\* faulty variant: one entry per record, the map lookup is lost
AddProductCodePerRecord(codes, r) ==
    LET code == toUpperCase(r.product_code)
    IN  IF code = "" \/ ~PRODUCT_CODE_RE(code) THEN codes
        ELSE Append(codes, [code |-> code,
                            deviceNames |-> IF r.device_name # "" THEN <<r.device_name>> ELSE <<>>,
                            count |-> 1])

\* faulty variant: the code is kept as written, not uppercased
AddProductCodeAsWritten(codes, r) ==
    LET code == r.product_code
        at == {k \in 1..Len(codes) : codes[k].code = code}
    IN  IF code = "" \/ ~PRODUCT_CODE_RE(code) THEN codes
        ELSE IF at # {}
        THEN [codes EXCEPT ![CHOOSE k \in at : TRUE].count = @ + 1]
        ELSE Append(codes, [code |-> code,
                            deviceNames |-> IF r.device_name # "" THEN <<r.device_name>> ELSE <<>>,
                            count |-> 1])

\* one pass of the loop that fills the productCodes map (insertion order)
AddProductCode(codes, r) ==
    LET code == toUpperCase(r.product_code)
        at == {k \in 1..Len(codes) : codes[k].code = code}
    IN  IF code = "" \/ ~PRODUCT_CODE_RE(code) THEN codes
        ELSE IF at # {}
        THEN LET k == CHOOSE k \in at : TRUE
                 names == codes[k].deviceNames
                 known == \E j \in 1..Len(names) : names[j] = r.device_name
             IN  [codes EXCEPT ![k] =
                    [code |-> code,
                     deviceNames |-> IF r.device_name # "" /\ ~known
                                     THEN Append(names, r.device_name) ELSE names,
                     count |-> codes[k].count + 1]]
        ELSE Append(codes, [code |-> code,
                            deviceNames |-> IF r.device_name # "" THEN <<r.device_name>> ELSE <<>>,
                            count |-> 1])

RECURSIVE ExtractProductCodes(_, _)
ExtractProductCodes(results, codes) ==
    IF Len(results) = 0 THEN codes
    ELSE ExtractProductCodes(Tail(results), AddProductCode(codes, Head(results)))

\* aiTerms and the choice between the two suggestion templates
AI_TERMS ==
    {"ai", "ml", "algorithm", "machine learning", "deep learning",
     "artificial intelligence", "samd", "software"}

\* faulty variant: the terms are compared without lowercasing
isAIQueryCaseSensitive(terms) == \E i \in 1..Len(terms) : terms[i] \in AI_TERMS

isAIQuery(terms) == \E i \in 1..Len(terms) : toLowerCase(terms[i]) \in AI_TERMS

\* the "No classification results found" response: the query, one of the two
\* suggestion texts and the footer's fallback search
Suggestions(q, terms) ==
    [kind |-> "suggestions", query |-> q,
     template |-> IF isAIQuery(terms) THEN "ai" ELSE "generic",
     url |-> [site |-> "fallback", endpoint |-> "classification",
              search |-> <<buildSearchTerms("device_name", q)>>]]

---------------------------------------------------------------------------
(* The search tools: search_510k, search_pma, search_recalls and           *)
(* search_adverse_events                                                   *)
(*                                                                         *)
(* Their arguments are records holding the supplied parameters only: a     *)
(* parameter left out (undefined) is not a field of the record.            *)

SEARCH_TOOLS == {"search_510k", "search_pma", "search_recalls", "search_adverse_events"}

\* /^\d{4}-\d{2}-\d{2}$/
DATE_RE(s) ==
    /\ Len(s) = 10
    /\ \A i \in 1..10 : IF i \in {5, 8} THEN CharAt(s, i) = "-" ELSE IsDigit(CharAt(s, i))

\* faulty variant: digits and dashes in any arrangement pass
validateDateAnyLayout(value) ==
    IF ~AllMatch(value, LAMBDA c : IsDigit(c) \/ c = "-") THEN "not a valid date" ELSE ""

\* validateDate: "" stands for null (valid)
validateDate(value) == IF ~DATE_RE(value) THEN "not a valid date" ELSE ""

\* date.replace(/-/g, "")
RECURSIVE stripDashes(_)
stripDashes(date) ==
    IF date = "" THEN ""
    ELSE (IF CharAt(date, 1) = "-" THEN "" ELSE CharAt(date, 1))
            \o stripDashes(SubSeq(date, 2, Len(date)))

MAUDE_CAVEAT ==
    "MAUDE Advisory: This data contains unverified, self-reported adverse event reports. Inclusion does not establish that a device caused or contributed to the reported event. Reports may be incomplete, inaccurate, or duplicated. See FDA's MAUDE FAQ for interpretation guidance.\n"

\* the truthiness test of an optional string parameter: if (p)
Truthy(a, f) == f \in DOMAIN a /\ a[f] # ""

\* p ?? d
OrDefault(a, f, d) == IF f \in DOMAIN a THEN a[f] ELSE d

\* new Date().toISOString().slice(0, 10)
TODAY == "2026-11-03"

\* limit ?? 10
DEFAULT_LIMIT == 10

\* the parameters of which at least one must be given
RequiredAny(t) ==
    CASE t = "search_510k" -> {"product_code", "k_number", "applicant", "device_name"}
      [] t = "search_pma" -> {"product_code", "pma_number", "applicant", "trade_name"}
      [] t = "search_recalls" -> {"product_code", "recalling_firm"}
      [] t = "search_adverse_events" -> {"product_code", "brand_name", "manufacturer"}

ParamErrorText(t) ==
    CASE t = "search_510k" ->
            "Error: Provide at least one of product_code, k_number, applicant, or device_name."
      [] t = "search_pma" ->
            "Error: Provide at least one of product_code, pma_number, applicant, or trade_name."
      [] t = "search_recalls" ->
            "Error: Provide at least one of product_code or recalling_firm."
      [] t = "search_adverse_events" ->
            "Error: Provide at least one of product_code, brand_name, or manufacturer."

\* the validation steps of a handler, in its order: the text of the first
\* validation error, or <<>> when every check passes
ValidationText(t, a) ==
    IF Truthy(a, "product_code") /\ validateProductCode(a.product_code) # ""
    THEN <<"Validation error: ", validateProductCode(a.product_code)>>
    ELSE IF t = "search_510k" /\ Truthy(a, "k_number") /\ ~K_NUMBER_RE(a.k_number)
    THEN <<"Validation error: ", "not a valid 510(k) number">>
    ELSE IF t = "search_pma" /\ Truthy(a, "pma_number") /\ ~PMA_NUMBER_RE(a.pma_number)
    THEN <<"Validation error: ", "not a valid PMA number">>
    ELSE IF Truthy(a, "date_from") /\ validateDate(a.date_from) # ""
    THEN <<"Validation error (date_from): ", validateDate(a.date_from)>>
    ELSE IF Truthy(a, "date_to") /\ validateDate(a.date_to) # ""
    THEN <<"Validation error (date_to): ", validateDate(a.date_to)>>
    ELSE <<>>

\* if (p) searchParts.push(...)
PartIf(a, f, part) == IF Truthy(a, f) THEN <<part>> ELSE <<>>

Quoted(s) == "\"" \o s \o "\""

\* the date-range part of a search
DateRange(a, field, from, to) ==
    IF Truthy(a, "date_from") \/ Truthy(a, "date_to")
    THEN <<field \o ":[" \o from \o "+TO+" \o to \o "]">>
    ELSE <<>>

SearchParts510k(a) ==
    IF Truthy(a, "k_number") THEN <<"k_number:" \o toUpperCase(a.k_number)>>
    ELSE PartIf(a, "product_code", "product_code:" \o toUpperCase(OrDefault(a, "product_code", "")))
         \o PartIf(a, "applicant", "applicant:" \o Quoted(OrDefault(a, "applicant", "")))
         \o PartIf(a, "device_name", "device_name:" \o Quoted(OrDefault(a, "device_name", "")))
         \o PartIf(a, "decision", "decision_code:" \o OrDefault(a, "decision", ""))
         \o PartIf(a, "clearance_type", "clearance_type:" \o Quoted(OrDefault(a, "clearance_type", "")))
         \o PartIf(a, "advisory_committee",
                   "advisory_committee:" \o toUpperCase(OrDefault(a, "advisory_committee", "")))
         \o DateRange(a, "decision_date", OrDefault(a, "date_from", "1976-01-01"),
                      OrDefault(a, "date_to", TODAY))

SearchPartsPMA(a) ==
    IF Truthy(a, "pma_number") THEN <<"pma_number:" \o toUpperCase(a.pma_number)>>
    ELSE PartIf(a, "product_code", "product_code:" \o toUpperCase(OrDefault(a, "product_code", "")))
         \o PartIf(a, "applicant", "applicant:" \o Quoted(OrDefault(a, "applicant", "")))
         \o PartIf(a, "trade_name", "trade_name:" \o Quoted(OrDefault(a, "trade_name", "")))
         \o PartIf(a, "advisory_committee",
                   "advisory_committee:" \o toUpperCase(OrDefault(a, "advisory_committee", "")))
         \o DateRange(a, "decision_date", OrDefault(a, "date_from", "1976-01-01"),
                      OrDefault(a, "date_to", TODAY))

SearchPartsRecalls(a) ==
    PartIf(a, "product_code", "product_code:" \o toUpperCase(OrDefault(a, "product_code", "")))
        \o PartIf(a, "recalling_firm", "recalling_firm:" \o Quoted(OrDefault(a, "recalling_firm", "")))
        \o PartIf(a, "status", "recall_status:" \o Quoted(OrDefault(a, "status", "")))
        \o DateRange(a, "event_date_initiated", OrDefault(a, "date_from", "2002-01-01"),
                     OrDefault(a, "date_to", TODAY))

SearchPartsEvents(a) ==
    PartIf(a, "product_code",
           "device.device_report_product_code:" \o toUpperCase(OrDefault(a, "product_code", "")))
        \o PartIf(a, "brand_name", "device.brand_name:" \o Quoted(OrDefault(a, "brand_name", "")))
        \o PartIf(a, "manufacturer",
                  "device.manufacturer_d_name:" \o Quoted(OrDefault(a, "manufacturer", "")))
        \o PartIf(a, "event_type", "event_type:" \o Quoted(OrDefault(a, "event_type", "")))
        \o PartIf(a, "report_source", "report_source_code:" \o Quoted(OrDefault(a, "report_source", "")))
        \o DateRange(a, "date_received", stripDashes(OrDefault(a, "date_from", "2000-01-01")),
                     stripDashes(OrDefault(a, "date_to", TODAY)))

\* the request of a search tool: queryOpenFDA(endpoint, searchParts, {limit, sort})
SearchCall(t, a) ==
    CASE t = "search_510k" ->
            [site |-> "search", endpoint |-> "510k", search |-> SearchParts510k(a),
             limit |-> OrDefault(a, "limit", DEFAULT_LIMIT),
             sort |-> IF Truthy(a, "k_number") THEN "" ELSE "decision_date:desc"]
      [] t = "search_pma" ->
            [site |-> "search", endpoint |-> "pma", search |-> SearchPartsPMA(a),
             limit |-> OrDefault(a, "limit", DEFAULT_LIMIT),
             sort |-> IF Truthy(a, "pma_number") THEN "" ELSE "decision_date:desc"]
      [] t = "search_recalls" ->
            [site |-> "search", endpoint |-> "recall", search |-> SearchPartsRecalls(a),
             limit |-> OrDefault(a, "limit", DEFAULT_LIMIT),
             sort |-> "event_date_initiated:desc"]
      [] t = "search_adverse_events" ->
            [site |-> "search", endpoint |-> "event", search |-> SearchPartsEvents(a),
             limit |-> OrDefault(a, "limit", DEFAULT_LIMIT),
             sort |-> "date_received:desc"]

\* formatError(data, url), without the footer
formatError(data) == "Error: " \o data.error

NotFoundText(t) ==
    CASE t = "search_510k" -> "No 510(k) records found."
      [] t = "search_pma" -> "No PMA records found."
      [] t = "search_recalls" -> "No recall records found."
      [] t = "search_adverse_events" -> "No adverse event records found."

FoundText(t) ==
    CASE t = "search_510k" -> "Found 510(k) clearance(s)."
      [] t = "search_pma" -> "Found PMA record(s)."
      [] t = "search_recalls" -> "Found recall(s)."
      [] t = "search_adverse_events" -> "Found adverse event report(s)."

\* what search_adverse_events puts in front of the responses it builds
\* after its request
CaveatOf(t) == IF t = "search_adverse_events" THEN <<MAUDE_CAVEAT>> ELSE <<>>

---------------------------------------------------------------------------
(* Inputs and the responses of openFDA                                     *)

\* longest query (in terms) built from the vocabulary
MaxTerms == 2

Vocab == {"Monitor", "the", "glucose"}

ExtraQueries ==
    {"", "   ", "DXN", "ecg", " mri ", "K123456", "constructor", "bp constructor",
     "bp", "bp Monitor", " bp  glucose ", "ecg the", "bp glucose Monitor",
     "x glucose the", "x glucose Monitor", "Software glucose", "gl+se gl se", "app"}

Queries == {join(t, " ") : t \in SeqsUpTo(Vocab, MaxTerms) \ {<<>>}} \cup ExtraQueries

ProductCodeArgs == {"DXN", "dxn", "K123456", "P123456", "DX"}

Inputs ==
    [product_code : {""}, query : Queries]
        \cup [product_code : ProductCodeArgs, query : {"", "DXN", "bp glucose"}]

API_ERRORS == {"NETWORK", "429", "NOT_FOUND"}

ErrorData(e) == [error |-> e, results |-> <<>>]
ResultData(rs) == [error |-> "", results |-> rs]

recBP == [product_code |-> "DXN",
          device_name |-> "System, Measurement, Blood-Pressure, Non-Invasive",
          definition |-> ""]
recGlucose == [product_code |-> "NBW",
               device_name |-> "Glucose Monitor, Over The Counter",
               definition |-> "Measures glucose in blood."]
recCatheter == [product_code |-> "DQY",
                device_name |-> "Catheter, Percutaneous",
                definition |-> "A flexible tube."]

PrimaryData ==
    {ErrorData(e) : e \in API_ERRORS}
        \cup {ResultData(rs) : rs \in {<<>>, <<recCatheter>>, <<recBP>>, <<recBP, recGlucose>>}}

\* a lookup by product code: at most the one record of that code
ClassificationRecord(code) ==
    [product_code |-> code, device_name |-> "Generic name of " \o code, definition |-> ""]

LookupData(code) ==
    {ErrorData(e) : e \in API_ERRORS}
        \cup {ResultData(<<>>), ResultData(<<ClassificationRecord(code)>>)}

k1 == [k_number |-> "K200001", device_name |-> "CardioPatch", product_code |-> "DPS"]
k2 == [k_number |-> "K200002", device_name |-> "CardioPatch Pro", product_code |-> "dps"]
k3 == [k_number |-> "K200003", device_name |-> "GlucoSense", product_code |-> "NBW"]
k4 == [k_number |-> "K200004", device_name |-> "Unlabelled", product_code |-> ""]
k5 == [k_number |-> "K200005", device_name |-> "Legacy", product_code |-> "12A"]

BridgeData ==
    {ErrorData(e) : e \in API_ERRORS}
        \cup {ResultData(rs) : rs \in {<<>>, <<k1, k2>>, <<k1, k3, k2>>, <<k4, k5>>, <<k4, k3>>}}

\* arguments of the search tools: every parameter is optional
WithField(S, f, vals) == S \cup {a @@ (f :> v) : a \in S, v \in vals}

ProductCodeValues == {"", "DXN", "K123456", "DX"}
DateFromValues == {"", "2024-01-15", "2024-1-5"}
DateToValues == {"2024-12-31", "20241231"}

WithDates(S) ==
    WithField(WithField(WithField(S, "product_code", ProductCodeValues),
                        "date_from", DateFromValues),
              "date_to", DateToValues)

SearchInputs(t) ==
    CASE t = "search_510k" ->
            WithDates(WithField(WithField(WithField(
                {<<>>, [decision |-> "SESE", clearance_type |-> "Special",
                        advisory_committee |-> "cv", limit |-> 25]},
                "k_number", {"K032161", "032161"}),
                "applicant", {"Acme"}),
                "device_name", {"pump"}))
      [] t = "search_pma" ->
            WithDates(WithField(WithField(WithField(
                {<<>>, [advisory_committee |-> "cv", limit |-> 25]},
                "pma_number", {"P170019", "170019"}),
                "applicant", {"Acme"}),
                "trade_name", {"HeartMate"}))
      [] t = "search_recalls" ->
            WithDates(WithField(
                {<<>>, [status |-> "Open", limit |-> 25]},
                "recalling_firm", {"Acme"}))
      [] t = "search_adverse_events" ->
            WithDates(WithField(WithField(
                {<<>>, [event_type |-> "Injury", report_source |-> "Voluntary report",
                        limit |-> 25]},
                "brand_name", {"HeartMate"}),
                "manufacturer", {"Acme"}))

\* what a search endpoint may answer
SearchData ==
    {ErrorData(e) : e \in API_ERRORS}
        \cup {ResultData(<<>>), ResultData(<<[id |-> "r1"]>>),
              ResultData(<<[id |-> "r1"], [id |-> "r2"]>>)}

---------------------------------------------------------------------------
(* The handler, one action per stretch of code between two awaits          *)

inputVars == <<tool, args, product_code, query, originalTerms, expandedTerms, termSets>>
loopVars == <<tsIdx, termsToUse, combos, comboIdx, fieldIdx, apiCalls, bestWeak, budgetHit,
              tries>>

\* the locals of a call that has not started
IdleFrame ==
    [pc |-> "idle", tool |-> "", args |-> [product_code |-> "", query |-> ""],
     product_code |-> "", query |-> "", originalTerms |-> <<>>, expandedTerms |-> <<>>,
     termSets |-> <<>>, tsIdx |-> 0, termsToUse |-> <<>>, combos |-> <<>>, comboIdx |-> 0,
     fieldIdx |-> 0, apiCalls |-> 0, bestWeak |-> NoWeak, budgetHit |-> FALSE, calls |-> <<>>,
     lookupCalls |-> <<>>, nCalls |-> 0, nAnswered |-> 0, lastData |-> NoData, sawCandidates |-> FALSE,
     tries |-> <<>>, bestSeen |-> NoSeen, pending |-> NoCall, outcome |-> "",
     response |-> NoResponse, bTsIdx |-> 0, topCombos |-> <<>>, bComboIdx |-> 0,
     seen510k |-> {}, bridgeData |-> NoData, productCodes |-> <<>>, codeIdx |-> 0,
     classificationResults |-> <<>>]

\* the locals of the running call
CallFrame ==
    [pc |-> pc, tool |-> tool, args |-> args, product_code |-> product_code, query |-> query,
     originalTerms |-> originalTerms, expandedTerms |-> expandedTerms, termSets |-> termSets,
     tsIdx |-> tsIdx, termsToUse |-> termsToUse, combos |-> combos, comboIdx |-> comboIdx,
     fieldIdx |-> fieldIdx, apiCalls |-> apiCalls, bestWeak |-> bestWeak,
     budgetHit |-> budgetHit, calls |-> calls, lookupCalls |-> lookupCalls, nCalls |-> nCalls,
     nAnswered |-> nAnswered, lastData |-> lastData, sawCandidates |-> sawCandidates, tries |-> tries,
     bestSeen |-> bestSeen, pending |-> pending, outcome |-> outcome, response |-> response,
     bTsIdx |-> bTsIdx, topCombos |-> topCombos, bComboIdx |-> bComboIdx,
     seen510k |-> seen510k, bridgeData |-> bridgeData, productCodes |-> productCodes,
     codeIdx |-> codeIdx, classificationResults |-> classificationResults]

\* faulty variant: the counter lives outside the handler
ResumedCounterShared(f) == apiCalls

\* let apiCalls = 0 is a local of the handler: each call has its own
ResumedCounter(f) == f.apiCalls

\* a suspended call takes up its locals where it left them
Resume(f) ==
    /\ pc' = f.pc
    /\ tool' = f.tool
    /\ args' = f.args
    /\ product_code' = f.product_code
    /\ query' = f.query
    /\ originalTerms' = f.originalTerms
    /\ expandedTerms' = f.expandedTerms
    /\ termSets' = f.termSets
    /\ tsIdx' = f.tsIdx
    /\ termsToUse' = f.termsToUse
    /\ combos' = f.combos
    /\ comboIdx' = f.comboIdx
    /\ fieldIdx' = f.fieldIdx
    /\ apiCalls' = ResumedCounter(f)
    /\ bestWeak' = f.bestWeak
    /\ budgetHit' = f.budgetHit
    /\ calls' = f.calls
    /\ lookupCalls' = f.lookupCalls
    /\ nCalls' = f.nCalls
    /\ nAnswered' = f.nAnswered
    /\ lastData' = f.lastData
    /\ sawCandidates' = f.sawCandidates
    /\ tries' = f.tries
    /\ bestSeen' = f.bestSeen
    /\ pending' = f.pending
    /\ outcome' = f.outcome
    /\ response' = f.response
    /\ bTsIdx' = f.bTsIdx
    /\ topCombos' = f.topCombos
    /\ bComboIdx' = f.bComboIdx
    /\ seen510k' = f.seen510k
    /\ bridgeData' = f.bridgeData
    /\ productCodes' = f.productCodes
    /\ codeIdx' = f.codeIdx
    /\ classificationResults' = f.classificationResults

Init ==
    /\ pc = "idle"
    /\ HandlerIdle
    /\ other = IdleFrame /\ callNo = 1
    /\ unitIn = [fn |-> "classify_device"]
    /\ unitOut = [done |-> FALSE]

\* return { content: ... }
Return(tag, payload) ==
    /\ pc' = "done"
    /\ outcome' = tag
    /\ response' = payload
    /\ pending' = NoCall
    /\ UNCHANGED <<calls, lookupCalls, nCalls>>

\* await queryOpenFDA(...)
Issue(call, at) ==
    /\ pc' = at
    /\ pending' = call
    /\ nCalls' = nCalls + 1
    /\ IF at = "lookup"
       THEN /\ lookupCalls' = IF pc = "lookup" THEN Append(lookupCalls, call) ELSE <<call>>
            /\ UNCHANGED calls
       ELSE /\ calls' = Append(calls, call)
            /\ lookupCalls' = <<>>
    /\ UNCHANGED <<outcome, response>>

\* bridgeVia510k up to its next request, or its `return null` and the
\* suggestions that follow it
BridgeStep(step, q, orig) ==
    IF step.kind = "call"
    THEN /\ Issue(BridgeCall(step.top[step.c]), "bridge")
         /\ bTsIdx' = step.ts
         /\ topCombos' = step.top
         /\ bComboIdx' = step.c
         /\ seen510k' = step.seen
         /\ bridgeData' = NoData
         /\ productCodes' = <<>>
         /\ codeIdx' = 0
         /\ classificationResults' = <<>>
    ELSE /\ Return("Unresolved", Suggestions(q, orig))
         /\ UNCHANGED bridgeVars

\* after the loops: the best weak match, else the bridge
LeaveLoops(bw, q, orig, exp) ==
    IF HasWeak(bw)
    THEN /\ Return("Weak", [kind |-> "classification", data |-> bw.data, url |-> bw.url])
         /\ UNCHANGED bridgeVars
    ELSE BridgeStep(BridgeFrom(<<exp, orig>>, 1, BridgeTopCombos(exp), 1, {}), q, orig)

\* the broadening loop up to its next request, or what follows the loops
LoopStep(step, n, bw, q, orig, exp) ==
    IF step.kind = "call"
    THEN /\ tsIdx' = step.ts
         /\ termsToUse' = step.termsToUse
         /\ combos' = step.combos
         /\ comboIdx' = step.c
         /\ fieldIdx' = step.f
         /\ apiCalls' = CountCall(n)
         /\ bestWeak' = bw
         /\ budgetHit' = step.hit
         /\ tries' = Append(tries, [ts |-> step.ts, terms |-> step.termsToUse,
                                    combo |-> step.combos[step.c], field |-> FIELDS[step.f]])
         /\ Issue(PrimaryCall(step.combos[step.c], FIELDS[step.f]), "primary")
         /\ UNCHANGED bridgeVars
    ELSE /\ UNCHANGED <<tsIdx, termsToUse, combos, comboIdx, fieldIdx, tries>>
         /\ apiCalls' = n
         /\ bestWeak' = bw
         /\ budgetHit' = step.hit
         /\ LeaveLoops(bw, q, orig, exp)

\* faulty variant: a synonym-table key is left to the broadening stage
AutoDetectedUnlessSynonym(code, q) ==
    /\ code = "" /\ q # "" /\ PRODUCT_CODE_RE(trim(q))
    /\ toLowerCase(trim(q)) \notin DOMAIN SYNONYMS

\* !product_code && query && PRODUCT_CODE_RE.test(query.trim())
AutoDetected(code, q) == code = "" /\ q # "" /\ PRODUCT_CODE_RE(trim(q))

\* the tool is called: everything up to the first request or return
Invoke(a) ==
    /\ pc = "idle"
    /\ UNCHANGED callVars
    /\ tool' = "classify_device"
    /\ args' = a
    /\ UNCHANGED <<unitVars, nAnswered, lastData, sawCandidates, bestSeen>>
    /\ IF a.product_code = "" /\ a.query = ""
       THEN /\ Return("ParamError", [kind |-> "error"])
            /\ UNCHANGED <<product_code, query, originalTerms, expandedTerms, termSets>>
            /\ UNCHANGED <<loopVars, bridgeVars>>
       ELSE
       LET detected == AutoDetected(a.product_code, a.query)
           code == IF detected THEN toUpperCase(trim(a.query)) ELSE a.product_code
           q == IF detected THEN "" ELSE a.query
       IN
       /\ product_code' = code
       /\ query' = q
       /\ IF code # ""
          THEN /\ UNCHANGED <<originalTerms, expandedTerms, termSets, loopVars, bridgeVars>>
               /\ IF validateProductCode(code) # ""
                  THEN Return("ValidationError", [kind |-> "error"])
                  ELSE Issue(DirectCall(code), "direct")
          ELSE
          LET orig == splitWs(trim(q)) IN
          /\ originalTerms' = orig
          /\ IF expandSynonymsThrows(orig)
             THEN /\ Return("TypeError", [kind |-> "exception"])
                  /\ UNCHANGED <<expandedTerms, termSets, loopVars, bridgeVars>>
             ELSE
             LET exp == expandSynonyms(orig)
                 tsets == TermSetsOf(exp, orig)
             IN
             /\ expandedTerms' = exp
             /\ termSets' = tsets
             /\ LoopStep(LoopStart(tsets, 0), 0, NoWeak, q, orig, exp)

\* the Direct lookup answers
DirectResponse(data) ==
    /\ pc = "direct"
    /\ UNCHANGED callVars
    /\ nAnswered' = nAnswered + 1
    /\ lastData' = data
    /\ UNCHANGED <<sawCandidates, bestSeen>>
    /\ IF data.error # ""
       THEN Return("Error", [kind |-> "error", data |-> data, url |-> pending])
       ELSE IF Len(data.results) = 0
       THEN Return("NotFound", [kind |-> "notfound", data |-> data, url |-> pending])
       ELSE Return("Direct", [kind |-> "classification", data |-> data, url |-> pending])
    /\ UNCHANGED <<inputVars, loopVars, bridgeVars, unitVars>>

\* one attempt of the broadening loop answers
PrimaryResponse(data) ==
    /\ pc = "primary"
    /\ UNCHANGED callVars
    /\ nAnswered' = nAnswered + 1
    /\ lastData' = data
    /\ sawCandidates' = (sawCandidates \/ (data.error = "" /\ Len(data.results) > 0))
    /\ UNCHANGED <<inputVars, unitVars>>
    /\ \E score \in {scoreResults(data.results, originalTerms)} :
       LET combo == combos[comboIdx]
           seen == [score |-> score, data |-> data, url |-> pending, try |-> Len(tries)]
           rest == TermSetsFrom(termSets, tsIdx, termsToUse, combos, comboIdx,
                                fieldIdx + 1, apiCalls, FALSE)
       IN  /\ bestSeen' = IF data.error = "" /\ Len(data.results) > 0
                               /\ (bestSeen = NoSeen \/ DblLess(bestSeen.score, score))
                           THEN seen ELSE bestSeen
           /\ IF HasResults(data)
              THEN IF IsStrong(Len(combo), Len(termsToUse), score)
                   THEN /\ Return("Strong", [kind |-> "classification", data |-> data,
                                             url |-> pending])
                        /\ UNCHANGED <<loopVars, bridgeVars>>
                   ELSE LoopStep(rest, apiCalls,
                                 IF ReplacesWeak(bestWeak, score)
                                 THEN [score |-> score, data |-> data, url |-> pending]
                                 ELSE bestWeak,
                                 query, originalTerms, expandedTerms)
              ELSE LoopStep(rest, apiCalls, bestWeak, query, originalTerms, expandedTerms)

\* the bridge moves on to its next candidate
BridgeContinue ==
    BridgeStep(BridgeFrom(<<expandedTerms, originalTerms>>, bTsIdx, topCombos,
                          bComboIdx + 1, seen510k),
               query, originalTerms)

\* a 510(k) search answers
BridgeResponse(data) ==
    /\ pc = "bridge"
    /\ UNCHANGED callVars
    /\ nAnswered' = nAnswered + 1
    /\ lastData' = data
    /\ UNCHANGED <<inputVars, loopVars, unitVars, sawCandidates, bestSeen>>
    /\ LET codes == ExtractProductCodes(data.results, <<>>)
       IN  IF HasResults(data) /\ Len(codes) > 0
           THEN /\ Issue(LookupCall(codes[1].code), "lookup")
                /\ bridgeData' = data
                /\ productCodes' = codes
                /\ codeIdx' = 1
                /\ classificationResults' = <<>>
                /\ UNCHANGED <<bTsIdx, topCombos, bComboIdx, seen510k>>
           ELSE BridgeContinue

\* the classification lookup of one discovered code answers
LookupResponse(data) ==
    /\ pc = "lookup"
    /\ UNCHANGED callVars
    /\ nAnswered' = nAnswered + 1
    /\ lastData' = data
    /\ UNCHANGED <<inputVars, loopVars, unitVars, sawCandidates, bestSeen>>
    /\ LET found == IF data.error = "" /\ Len(data.results) > 0
                    THEN classificationResults \o data.results
                    ELSE classificationResults
       IN  IF codeIdx < Len(productCodes)
           THEN /\ Issue(LookupCall(productCodes[codeIdx + 1].code), "lookup")
                /\ codeIdx' = codeIdx + 1
                /\ classificationResults' = found
                /\ UNCHANGED <<bTsIdx, topCombos, bComboIdx, seen510k, bridgeData, productCodes>>
           ELSE IF Len(found) = 0
           THEN BridgeContinue
           ELSE /\ Return("Bridged",
                          [kind |-> "bridged",
                           classifications |-> found,
                           productCodes |-> productCodes,
                           examples |-> FirstN(bridgeData.results, EXAMPLE_LIMIT),
                           url |-> BridgeCall(topCombos[bComboIdx])])
                /\ classificationResults' = found
                /\ UNCHANGED <<bTsIdx, topCombos, bComboIdx, seen510k, bridgeData,
                               productCodes, codeIdx>>

\* a search tool is called: everything up to its request or return
InvokeSearch(t, a) ==
    /\ pc = "idle"
    /\ UNCHANGED callVars
    /\ tool' = t
    /\ args' = a
    /\ UNCHANGED <<product_code, query, originalTerms, expandedTerms, termSets>>
    /\ UNCHANGED <<loopVars, bridgeVars, unitVars, nAnswered, lastData, sawCandidates, bestSeen>>
    /\ IF \A f \in RequiredAny(t) : ~Truthy(a, f)
       THEN Return("ParamError", [kind |-> "error", text |-> <<ParamErrorText(t)>>])
       ELSE IF ValidationText(t, a) # <<>>
       THEN Return("ValidationError", [kind |-> "error", text |-> ValidationText(t, a)])
       ELSE Issue(SearchCall(t, a), "search")

\* the search answers
SearchResponse(data) ==
    /\ pc = "search"
    /\ UNCHANGED callVars
    /\ nAnswered' = nAnswered + 1
    /\ lastData' = data
    /\ UNCHANGED <<inputVars, loopVars, bridgeVars, unitVars, sawCandidates, bestSeen>>
    /\ IF data.error # ""
       THEN Return("Error", [kind |-> "error",
                             text |-> CaveatOf(tool) \o <<formatError(data)>>,
                             url |-> pending])
       ELSE IF Len(data.results) = 0
       THEN Return("NotFound", [kind |-> "notfound",
                                text |-> CaveatOf(tool) \o <<NotFoundText(tool)>>,
                                url |-> pending])
       ELSE Return("Records", [kind |-> "records",
                               text |-> CaveatOf(tool) \o <<FoundText(tool)>>,
                               data |-> data, url |-> pending])

Next ==
    \/ pc = "idle" /\ \E a \in Inputs : Invoke(a)
    \/ pc = "idle" /\ \E t \in SEARCH_TOOLS : \E a \in SearchInputs(t) : InvokeSearch(t, a)
    \/ pc = "search" /\ \E data \in SearchData : SearchResponse(data)
    \/ pc = "direct" /\ \E data \in LookupData(product_code) : DirectResponse(data)
    \/ pc = "primary" /\ \E data \in PrimaryData : PrimaryResponse(data)
    \/ pc = "bridge" /\ \E data \in BridgeData : BridgeResponse(data)
    \/ pc = "lookup" /\ \E data \in LookupData(productCodes[codeIdx].code) : LookupResponse(data)

Spec == Init /\ [][Next]_vars

---------------------------------------------------------------------------
(* Two calls of classify_device in one process                             *)
(*                                                                         *)
(* The server is single-threaded: a handler runs until its next await, and *)
(* another call can run only while this one waits for queryOpenFDA, has    *)
(* returned or has not started.  Every state of the model is such a point. *)

\* control passes to the other call
Switch ==
    /\ pc # "unit"
    /\ other' = CallFrame
    /\ Resume(other)
    /\ callNo' = 3 - callNo
    /\ UNCHANGED unitVars

PairInputs == [product_code : {""}, query : {"glucose", "Monitor", "DXN"}]

PairNext ==
    \/ Switch
    \/ pc = "idle" /\ \E a \in PairInputs : Invoke(a)
    \/ pc = "direct" /\ \E data \in LookupData(product_code) : DirectResponse(data)
    \/ pc = "primary" /\ \E data \in PrimaryData : PrimaryResponse(data)
    \/ pc = "bridge" /\ \E data \in BridgeData : BridgeResponse(data)
    \/ pc = "lookup" /\ \E data \in LookupData(productCodes[codeIdx].code) : LookupResponse(data)

PairSpec == Init /\ [][PairNext]_vars

---------------------------------------------------------------------------
(* The functions called on their own                                       *)

\* longest term sequence handed to generateCombinations on its own
MaxCombLen == 5

UnitTerms == {"A", "B", "C"}

\* the index list behind each combination generateCombinations returns, in
\* the order of its output (for n <= 1 the whole input is returned as is)
combinationIndices(n) ==
    IF n <= 1 THEN <<[k \in 1..n |-> k]>> ELSE IndicesFromSize(n, n)

\* longest term sequence handed to expandSynonyms on its own
MaxExpandLen == 2

ExpandTerms == {"bp", "BP", "Monitor", "Glucose", "app", "constructor", ""}

\* most records in a response handed to scoreResults on its own
MaxScoreRecords == 3

recOximeter == [product_code |-> "DQA", device_name |-> "Oximeter", definition |-> ""]
recPulseOx == [product_code |-> "DQA",
               device_name |-> "Oximeter, Pulse, Finger Clip Sensor",
               definition |-> ""]

ScoreRecords == {recBP, recGlucose, recCatheter, recOximeter, recPulseOx}

\* original terms handed to scoreResults: the handler calls it only after
\* expandSynonyms has returned for the same terms
ScoreTerms ==
    {<<>>, <<"bp">>, <<"BP", "Monitor">>, <<"glucose", "the", "x">>,
     <<"pulse", "oximeter", "finger", "clip", "sensor">>}

UnitInputs ==
    [fn : {"generateCombinations"}, terms : SeqsUpTo(UnitTerms, MaxCombLen)]
        \cup [fn : {"expandSynonyms"}, terms : SeqsUpTo(ExpandTerms, MaxExpandLen)]
        \cup [fn : {"scoreResults"}, results : SeqsUpTo(ScoreRecords, MaxScoreRecords),
              terms : ScoreTerms]

UnitInit ==
    /\ pc = "unit"
    /\ HandlerIdle
    /\ other = IdleFrame /\ callNo = 1
    /\ unitIn \in UnitInputs
    /\ unitOut = [done |-> FALSE]

CallGenerateCombinations ==
    /\ pc = "unit" /\ unitIn.fn = "generateCombinations" /\ ~unitOut.done
    /\ unitOut' = [done |-> TRUE,
                   value |-> generateCombinations(unitIn.terms),
                   indices |-> combinationIndices(Len(unitIn.terms))]
    /\ UNCHANGED <<handlerVars, bridgeVars, unitIn, callVars>>

CallExpandSynonyms ==
    /\ pc = "unit" /\ unitIn.fn = "expandSynonyms" /\ ~unitOut.done
    /\ unitOut' = IF expandSynonymsThrows(unitIn.terms)
                  THEN [done |-> TRUE, threw |-> TRUE, value |-> <<>>]
                  ELSE [done |-> TRUE, threw |-> FALSE, value |-> expandSynonyms(unitIn.terms)]
    /\ UNCHANGED <<handlerVars, bridgeVars, unitIn, callVars>>

CallScoreResults ==
    /\ pc = "unit" /\ unitIn.fn = "scoreResults" /\ ~unitOut.done
    /\ unitOut' = [done |-> TRUE, value |-> scoreResults(unitIn.results, unitIn.terms)]
    /\ UNCHANGED <<handlerVars, bridgeVars, unitIn, callVars>>

UnitNext ==
    \/ CallGenerateCombinations
    \/ CallExpandSynonyms
    \/ CallScoreResults

UnitSpec == UnitInit /\ [][UnitNext]_vars

GenDone == pc = "unit" /\ unitIn.fn = "generateCombinations" /\ unitOut.done

Ascending(idx) == \A i \in 2..Len(idx) : idx[i - 1] < idx[i]

\* a precedes b in lexicographic order (index lists of equal length)
LexLess(a, b) ==
    \E i \in 1..Len(a) : a[i] < b[i] /\ \A j \in 1..(i - 1) : a[j] = b[j]

\* what C4 says of one call with n terms
CombinationsComplete(terms, value, indices) ==
    LET n == Len(terms) IN
    /\ Len(value) = Pow2(n) - 1
    /\ Len(indices) = Len(value)
    /\ \A k \in 1..Len(value) :
          /\ value[k] = PickTerms(terms, indices[k])
          /\ Len(indices[k]) >= 1
          /\ Ascending(indices[k])
          /\ \A i \in 1..Len(indices[k]) : indices[k][i] \in 1..n
    /\ \A k, l \in 1..Len(indices) : k # l => indices[k] # indices[l]
    /\ \A k \in 2..Len(indices) : Len(indices[k - 1]) >= Len(indices[k])
    /\ {Len(indices[k]) : k \in 1..Len(indices)} = 1..n

\* C4 as stated: for every term sequence of length n, n = 0 and n = 1
\* included, generateCombinations returns exactly 2^n - 1 combinations,
\* pairwise distinct as index sets, each a non-empty ascending sub-sequence
\* of the input, in n size-groups ordered n, n-1, ..., 1.
C4_Original ==
    GenDone => CombinationsComplete(unitIn.terms, unitOut.value, unitOut.indices)

\* C4 amended: the statement holds for every n >= 1; for n = 0 the result is
\* the one-element list holding the empty input itself.
C4_Combinations ==
    GenDone =>
        IF Len(unitIn.terms) >= 1
        THEN CombinationsComplete(unitIn.terms, unitOut.value, unitOut.indices)
        ELSE unitOut.value = <<unitIn.terms>>

C4_Witness == GenDone /\ Len(unitIn.terms) = 4 /\ Len(unitOut.value) = 15

\* C5: within each size group every contiguous-index combination precedes
\* every non-contiguous one and each of the two sub-groups is in ascending
\* lexicographic index order; [A,B,C] yields [A,B,C], [A,B], [B,C], [A,C],
\* [A], [B], [C] in that order.
C5_Order ==
    GenDone =>
        /\ \A k, l \in 1..Len(unitOut.indices) :
              (k < l /\ Len(unitOut.indices[k]) = Len(unitOut.indices[l])) =>
                  /\ isContiguous(unitOut.indices[k]) \/ ~isContiguous(unitOut.indices[l])
                  /\ (isContiguous(unitOut.indices[k]) = isContiguous(unitOut.indices[l]))
                        => LexLess(unitOut.indices[k], unitOut.indices[l])
        /\ \A k \in 1..Len(unitOut.value) :
              unitOut.value[k] = PickTerms(unitIn.terms, unitOut.indices[k])
        /\ unitIn.terms = <<"A", "B", "C">> =>
              unitOut.value = << <<"A", "B", "C">>, <<"A", "B">>, <<"B", "C">>,
                                 <<"A", "C">>, <<"A">>, <<"B">>, <<"C">> >>

C5_Witness ==
    /\ GenDone /\ unitIn.terms = <<"A", "B", "C">> /\ Len(unitOut.value) = 7
    /\ unitOut.indices[4] = <<1, 3>>

ExpandDone == pc = "unit" /\ unitIn.fn = "expandSynonyms" /\ unitOut.done

\* C11: for every term x whose lowercase form is not a key of the synonym
\* table, expandSynonyms([x]) returns exactly [x], case preserved.
C11_AbsentTermUnchanged ==
    (ExpandDone /\ Len(unitIn.terms) = 1
                /\ toLowerCase(unitIn.terms[1]) \notin DOMAIN SYNONYMS)
        => (~unitOut.threw /\ unitOut.value = unitIn.terms)

ScoreDone == pc = "unit" /\ unitIn.fn = "scoreResults" /\ unitOut.done

\* the match set of an original term: its lowercase form and the lowercased
\* words of its synonym expansion
MatchSet(t) ==
    LET lower == toLowerCase(t)
        syns == IF lower \in DOMAIN SYNONYMS THEN SYNONYMS[lower] ELSE <<>>
    IN  {lower} \cup UNION {{toLowerCase(splitWs(syns[i])[k]) :
                                k \in 1..Len(splitWs(syns[i]))} : i \in 1..Len(syns)}

\* some member of the term's match set occurs in the record's lowercased
\* name-plus-definition text
TermCovered(r, t) ==
    \E m \in MatchSet(t) :
        includes(toLowerCase(r.device_name) \o " " \o toLowerCase(r.definition), m)

CoveredTerms(r, terms) == Cardinality({i \in 1..Len(terms) : TermCovered(r, terms[i])})

RECURSIVE SumCovered(_, _)
SumCovered(results, terms) ==
    IF Len(results) = 0 THEN 0
    ELSE CoveredTerms(Head(results), terms) + SumCovered(Tail(results), terms)

\* 2^-50 in the fixed-point window
RoundingSlack ==
    [i \in 1..DBL_LIMBS |->
        IF i = LimbOf(DBL_INT_BITS + 50) THEN WeightOf(DBL_INT_BITS + 50) ELSE 0]

\* the double x is within 2^-50 of the exact quotient num / den
NearQuotient(x, num, den) ==
    LET q == LongDiv(DblFromInt(num), 1, den, 0, <<>>).limbs
    IN  /\ DblLess(x, AddLimbs(q, RoundingSlack, DBL_LIMBS, 0, <<>>))
        /\ DblLess(q, AddLimbs(x, RoundingSlack, DBL_LIMBS, 0, <<>>))

---------------------------------------------------------------------------
(* Properties of classify_device                                           *)

PrimaryCalls == {i \in DOMAIN calls : calls[i].site = "primary"}
BridgeCalls == {i \in DOMAIN calls : calls[i].endpoint = "510k"}

\* responses received so far
Received == nCalls - (IF pc \in {"direct", "primary", "bridge", "lookup", "search"} THEN 1 ELSE 0)

Candidates(data) == data.error = "" /\ Len(data.results) > 0

\* a three-letter token
ThreeLetters(s) == Len(s) = 3 /\ \A i \in 1..3 : CharAt(s, i) \in UpperChars \cup LowerChars

\* C1: in one classify_device call, whatever the search port answers, the
\* broadening loop issues at most 30 primary-search calls in total.
C1_BroadeningBounded ==
    /\ Cardinality(PrimaryCalls) <= 30
    /\ apiCalls <= 30

C1_Witness == Cardinality(PrimaryCalls) = 30 /\ budgetHit /\ pc = "done"

\* C2: one whole classify_device call (Direct lookup, broadening loop, 510(k)
\* bridge and its per-code lookups together) performs at most 30 external calls.
C2_TotalCallsBounded == nCalls <= 30

\* C3 as stated: when a budget test stops the loop the outcome is Unresolved
\* (the bridge takes over), never Weak, even if a weak candidate was recorded.
C3_Original ==
    budgetHit =>
        \/ pc \in {"bridge", "lookup"}
        \/ pc = "done" /\ outcome \in {"Bridged", "Unresolved"}

\* C3 amended: when a budget test stops the loop, 30 primary requests have
\* been made and no further one is issued; the outcome is Weak with the
\* recorded candidate if one was recorded, and only otherwise the bridge
\* takes over (Bridged or Unresolved).
C3_BudgetStop ==
    budgetHit =>
        /\ Cardinality(PrimaryCalls) = 30
        /\ pc # "primary"
        /\ IF bestWeak # NoWeak
           THEN pc = "done" /\ outcome = "Weak" /\ response.data = bestWeak.data
           ELSE \/ pc \in {"bridge", "lookup"}
                \/ pc = "done" /\ outcome \in {"Bridged", "Unresolved"}

C3_Witness == budgetHit /\ pc = "done" /\ outcome = "Weak" /\ bestWeak.score = DblZero

\* C6: if the expanded term-set differs from the original and the first
\* request (the full-length combination of the expanded set, device_name
\* field) returns records, the call returns Strong with them after exactly
\* that one request: nothing of the original term-set, no other field and no
\* bridge request is issued.
C6_FirstFullLengthStrong ==
    [][(/\ pc = "primary" /\ nCalls = 1
        /\ join(expandedTerms, " ") # join(originalTerms, " ")
        /\ Candidates(lastData'))
       => (/\ pc' = "done" /\ outcome' = "Strong"
           /\ response'.data = lastData'
           /\ nCalls' = 1
           /\ calls' = <<[site |-> "primary", endpoint |-> "classification",
                          search |-> <<buildSearchTerms("device_name",
                                                        join(termsToUse, " "))>>]>>
           /\ termsToUse = TermsToUse(expandedTerms))]_vars

C6_Witness ==
    /\ pc = "done" /\ outcome = "Strong" /\ nCalls = 1
    /\ originalTerms = <<"bp", "Monitor">>
    /\ expandedTerms = <<"blood", "pressure", "monitor">>
    /\ calls[1].search = <<"device_name:blood+AND+device_name:pressure+AND+device_name:monitor">>
    /\ lastData.results = <<recCatheter>>

\* every record carries the code `code` (in any letter case)
AllCarry(results, code) ==
    \A i \in 1..Len(results) : toUpperCase(results[i].product_code) = code

\* C7: when no broadening request found anything and a 510(k) response whose
\* records all carry one and the same valid code is followed by a successful
\* lookup of that code, the call returns Bridged with exactly one
\* classification entry, that code's, and the 510(k) records that led to it.
C7_BridgedSingleCode ==
    [][(/\ pc = "lookup"
        /\ ThreeLetters(bridgeData.results[1].product_code)
        /\ AllCarry(bridgeData.results, toUpperCase(bridgeData.results[1].product_code))
        /\ Candidates(lastData'))
       => (/\ ~sawCandidates
           /\ pc' = "done" /\ outcome' = "Bridged"
           /\ Len(response'.classifications) = 1
           /\ AllCarry(bridgeData.results, response'.classifications[1].product_code)
           /\ response'.classifications = lastData'.results
           /\ response'.examples = FirstN(bridgeData.results, 5)
           /\ Len(response'.productCodes) = 1
           /\ response'.productCodes[1].count = Len(bridgeData.results)
           /\ nCalls' = nCalls)]_vars

C7_Witness ==
    /\ pc = "done" /\ outcome = "Bridged"
    /\ bridgeData.results = <<k1, k2>>
    /\ Len(response.classifications) = 1
    /\ response.classifications[1].product_code = "DPS"
    /\ response.productCodes[1].deviceNames = <<"CardioPatch", "CardioPatch Pro">>
    /\ Cardinality(PrimaryCalls) > 0

\* C8: for any query and any responses the call ends in one of its terminal
\* outcomes; it never raises.
C8_NeverRaises == outcome # "TypeError"

\* C9: when the query is a three-letter token (and no product_code is given)
\* the call makes exactly one Direct lookup by that code and returns at once,
\* whatever the lookup answers: no expansion, no combination request and no
\* bridge request.
C9_DirectOnly ==
    (tool = "classify_device" /\ args.product_code = "" /\ ThreeLetters(trim(args.query))) =>
        /\ calls = <<[site |-> "direct", endpoint |-> "classification",
                      search |-> <<"product_code:" \o toUpperCase(trim(args.query))>>]>>
        /\ nCalls = 1
        /\ originalTerms = <<>> /\ expandedTerms = <<>> /\ termSets = <<>> /\ apiCalls = 0
        /\ \/ pc = "direct"
           \/ /\ pc = "done"
              /\ \/ outcome = "Error" /\ lastData.error # ""
                 \/ outcome = "NotFound" /\ lastData = ResultData(<<>>)
                 \/ outcome = "Direct" /\ Candidates(lastData)

C9_Witness ==
    /\ pc = "done" /\ tool = "classify_device"
    /\ args = [product_code |-> "", query |-> " mri "]
    /\ outcome = "NotFound" /\ calls[1].search = <<"product_code:MRI">>

\* C10: the bridge is entered only when the broadening stage ended with
\* neither Strong nor Weak: once a broadening request has returned records,
\* no 510(k) request is ever issued in that call.
C10_NoBridgeAfterCandidates ==
    sawCandidates =>
        /\ BridgeCalls = {}
        /\ pc \in {"primary", "done"}
        /\ pc = "done" => outcome \in {"Strong", "Weak"}

C10_Witness ==
    /\ sawCandidates /\ pc = "done" /\ outcome = "Weak"
    /\ Cardinality(PrimaryCalls) > 2

\* C13: when the broadening stage and the bridge both fail, the response is
\* the Unresolved one: it carries the original query and exactly one of the
\* two suggestion templates, the AI/SaMD one if and only if some original
\* term, lowercased, belongs to the AI-term set, otherwise the generic one.
C13_Suggestions ==
    (pc = "done" /\ outcome = "Unresolved") =>
        /\ ~sawCandidates
        /\ classificationResults = <<>>
        /\ response.kind = "suggestions"
        /\ response.query = args.query
        /\ response.template \in {"ai", "generic"}
        /\ (response.template = "ai") <=>
              \E i \in 1..Len(originalTerms) :
                  toLowerCase(originalTerms[i]) \in
                      {"ai", "ml", "algorithm", "machine learning", "deep learning",
                       "artificial intelligence", "samd", "software"}

C13_Witness ==
    /\ pc = "done" /\ outcome = "Unresolved"
    /\ args.query = "Software glucose"
    /\ response.template = "ai"
    /\ Cardinality(PrimaryCalls) > 0 /\ BridgeCalls # {}

\* a supplied parameter of the call fails its syntax check; with onlyNonEmpty
\* an empty string does not count as supplied
FailsSyntax(t, a, onlyNonEmpty) ==
    LET Supplied(f) == f \in DOMAIN a /\ (onlyNonEmpty => a[f] # "")
    IN  IF t = "classify_device"
        THEN a.product_code # "" /\ ~ThreeLetters(a.product_code)
        ELSE \/ Supplied("product_code") /\ ~ThreeLetters(a.product_code)
             \/ t = "search_510k" /\ Supplied("k_number") /\ ~K_NUMBER_RE(a.k_number)
             \/ t = "search_pma" /\ Supplied("pma_number") /\ ~PMA_NUMBER_RE(a.pma_number)
             \/ Supplied("date_from") /\ ~DATE_RE(a.date_from)
             \/ Supplied("date_to") /\ ~DATE_RE(a.date_to)

\* one of the parameters the tool requires at least one of is given, non-empty
SomeRequiredGiven(t, a) ==
    IF t = "classify_device" THEN a.product_code # "" \/ a.query # ""
    ELSE \E f \in DOMAIN a :
            /\ \/ f = "product_code"
               \/ t = "search_510k" /\ f \in {"k_number", "applicant", "device_name"}
               \/ t = "search_pma" /\ f \in {"pma_number", "applicant", "trade_name"}
               \/ t = "search_recalls" /\ f = "recalling_firm"
               \/ t = "search_adverse_events" /\ f \in {"brand_name", "manufacturer"}
            /\ a[f] # ""

C15_CaveatAlways ==
    (tool = "search_adverse_events" /\ pc = "done") => response.text[1] = MAUDE_CAVEAT

\* the terms of the query as typed, before any expansion
TypedTerms == splitWs(trim(args.query))

\* the attempt of the broadening loop that lastData answers, as an index of
\* tries; 0 when lastData is not the answer to an attempt
AnsweredTry ==
    IF tool # "classify_device" \/ tries = <<>> THEN 0
    ELSE IF pc = "primary" THEN Len(tries) - 1
    ELSE IF pc = "done" /\ calls[Len(calls)].site = "primary" THEN Len(tries)
    ELSE IF pc = "bridge" /\ calls[Len(calls) - 1].site = "primary" THEN Len(tries)
    ELSE 0

NonEmptyAnswer == lastData.error = "" /\ Len(lastData.results) > 0

\* C16: whenever a primary query returns a non-empty candidate list and
\* either the combination used has the full length of the current
\* (filler-filtered) term-set or the score computed against the original
\* query terms is at least 0.4, the handler returns Strong with exactly that
\* result set at once, and no external call is issued afterwards.
C16_StrongImmediately ==
    (/\ AnsweredTry > 0
     /\ NonEmptyAnswer
     /\ \/ Len(tries[AnsweredTry].combo) = Len(tries[AnsweredTry].terms)
        \/ ~DblLess(scoreResults(lastData.results, TypedTerms), RELEVANCE_THRESHOLD))
    => /\ pc = "done" /\ outcome = "Strong"
       /\ response.data = lastData /\ response.url = calls[Len(calls)]
       /\ AnsweredTry = Len(tries)
       /\ nCalls = Len(tries) /\ Len(calls) = Len(tries) /\ pending = NoCall

\* Strong by relevance alone: a combination shorter than its term-set
C16_Witness ==
    /\ pc = "done" /\ outcome = "Strong"
    /\ Len(combos[comboIdx]) < Len(termsToUse)
    /\ response.data = lastData
    /\ ~DblLess(scoreResults(lastData.results, TypedTerms), RELEVANCE_THRESHOLD)

\* the broadening loop is over and returned no Strong result
LoopOverWithoutStrong ==
    /\ tool = "classify_device" /\ tries # <<>>
    /\ \/ pc \in {"bridge", "lookup"}
       \/ pc = "done" /\ outcome # "Strong"

\* C17: if the broadening loop ends without a Strong result and some query
\* returned a non-empty list, the handler returns Weak with the recorded
\* response, whose score is maximal among all non-empty responses seen in
\* the call, the earliest one on ties; every response recorded as a Weak
\* candidate has a score below 0.4 and came from a combination shorter than
\* its term-set.
C17_BestWeak ==
    /\ (LoopOverWithoutStrong /\ sawCandidates)
        => /\ pc = "done" /\ outcome = "Weak"
           /\ response.data = bestSeen.data /\ response.url = bestSeen.url
    /\ (tool = "classify_device" /\ bestWeak # NoWeak /\ outcome # "Strong")
        => /\ bestWeak = [score |-> bestSeen.score, data |-> bestSeen.data,
                          url |-> bestSeen.url]
           /\ DblLess(bestWeak.score, RELEVANCE_THRESHOLD)
           /\ Len(tries[bestSeen.try].combo) < Len(tries[bestSeen.try].terms)

\* Weak with an earlier response although a later non-empty one scored the same
C17_Witness ==
    /\ pc = "done" /\ outcome = "Weak"
    /\ response.data = bestSeen.data
    /\ AnsweredTry = Len(tries) /\ bestSeen.try < Len(tries)
    /\ NonEmptyAnswer /\ lastData # response.data
    /\ scoreResults(lastData.results, TypedTerms) = bestSeen.score

\* every term of combo is a term of terms
TermsFrom(combo, terms) ==
    \A k \in 1..Len(combo) : \E j \in 1..Len(terms) : combo[k] = terms[j]

\* C18: the term-sets the broadening loop tries are the expanded sequence
\* followed by the original sequence, the expanded one left out if and only
\* if it is identical to the original; every query built from the expanded
\* set is issued before any query built from the original set.
C18_TermSets ==
    (tool = "classify_device" /\ termSets # <<>>) =>
        /\ termSets = IF expandedTerms = TypedTerms
                      THEN <<TypedTerms>>
                      ELSE <<expandedTerms, TypedTerms>>
        \* of the attempt made last; the earlier ones were the last in earlier states
        /\ LET i == Len(tries)
           IN  i > 0 =>
                /\ tries[i].ts \in 1..Len(termSets)
                /\ tries[i].terms = TermsToUse(termSets[tries[i].ts])
                /\ TermsFrom(tries[i].combo, termSets[tries[i].ts])
                /\ calls[i] = PrimaryCall(tries[i].combo, tries[i].field)
                /\ i > 1 => tries[i - 1].ts <= tries[i].ts

\* both sets were tried: a query of the original set after those of the expanded set
C18_Witness ==
    /\ tool = "classify_device" /\ Len(termSets) = 2
    /\ termSets[1] = expandedTerms /\ termSets[2] = TypedTerms
    /\ expandedTerms # TypedTerms
    /\ tries # <<>>
    /\ tries[1].ts = 1 /\ tries[Len(tries)].ts = 2
    /\ ~TermsFrom(tries[1].combo, TypedTerms)

\* the answer that arrives in this step is an error or an empty list
NothingArrives == lastData'.error # "" \/ Len(lastData'.results) = 0

\* the loop's position moves to the next field, combination or term-set
NextPosition ==
    IF fieldIdx < Len(FIELDS)
    THEN tsIdx' = tsIdx /\ comboIdx' = comboIdx /\ fieldIdx' = fieldIdx + 1
    ELSE /\ fieldIdx' = 1
         /\ \/ tsIdx' = tsIdx /\ comboIdx' = comboIdx + 1
            \/ comboIdx = Len(combos) /\ tsIdx' = tsIdx + 1 /\ comboIdx' = 1

\* every attempt of every term-set has been made
AllTried == tsIdx = Len(termSets) /\ comboIdx = Len(combos) /\ fieldIdx = Len(FIELDS)

\* C19: an attempt of the broadening loop or of the bridge that returns an
\* error or an empty list never aborts the handler and never yields an error
\* outcome; it is treated like "no candidates": nothing is recorded, the
\* loop goes on to the next field, combination or candidate, and only the
\* exhausted call budget ends the broadening loop before all attempts are made.
C19_ErrorsContinue ==
    [][(tool = "classify_device" /\ pc \in {"primary", "bridge", "lookup"} /\ NothingArrives)
        => /\ pc' = "done" => outcome' \in {"Weak", "Unresolved", "Bridged"}
           /\ bestWeak' = bestWeak
           /\ pc = "primary" =>
                IF pc' = "primary"
                THEN NextPosition /\ Len(tries') = Len(tries) + 1 /\ nCalls' = nCalls + 1
                ELSE /\ AllTried \/ apiCalls = MAX_API_CALLS
                     /\ outcome' = "Weak" <=> bestWeak # NoWeak
           /\ pc = "bridge" =>
                /\ pc' = "bridge" \/ (pc' = "done" /\ outcome' = "Unresolved")
                /\ pc' = "bridge" => bComboIdx' # bComboIdx \/ bTsIdx' # bTsIdx
           /\ pc = "lookup" =>
                /\ classificationResults' = classificationResults
                /\ outcome' = "Bridged" => classificationResults # <<>>
      ]_vars

\* after a failed request the loop has issued its next query
C19_Witness ==
    /\ tool = "classify_device" /\ pc = "primary"
    /\ lastData.error = "NETWORK"
    /\ Len(tries) = 3 /\ nCalls = 3
    /\ bestWeak = NoWeak

\* C20: for each term-set the broadening loop attempts the combinations in
\* exactly the order generateCombinations emits them (size n first, then
\* descending sizes down to 1, contiguous before non-contiguous within a
\* size), and for each combination it queries the name field before the
\* description field.
\* Stated of the attempt made last, the k-th of its term-set; the earlier
\* ones were the last in earlier states.
C20_GeneratorOrder ==
    (tool = "classify_device" /\ tries # <<>>) =>
        LET t == tries[Len(tries)]
            k == Cardinality({j \in 1..Len(tries) : tries[j].ts = t.ts})
            emitted == generateCombinations(t.terms)
        IN  /\ (k + 1) \div 2 <= Len(emitted)
            /\ t.combo = emitted[(k + 1) \div 2]
            /\ t.field = IF k % 2 = 1 THEN "device_name" ELSE "definition"

\* the terms that are no filler words, and those of them longer than one character
NonFiller(terms) == SelectSeq(terms, LAMBDA t : toLowerCase(t) \notin FILLER_WORDS)
LongNonFiller(terms) == SelectSeq(NonFiller(terms), LAMBDA t : Len(t) > 1)

\* the attempt made last and the term-set it belongs to
LastTry == tries[Len(tries)]
LastTermSet == termSets[LastTry.ts]

\* C21 as stated: the term sequence used is the term-set with exactly the
\* filler words removed when at least two non-filler terms remain, and the
\* unfiltered term-set otherwise; it is never empty.
C21_Original ==
    (tool = "classify_device" /\ tries # <<>>) =>
        /\ LastTry.terms = IF Len(NonFiller(LastTermSet)) >= 2
                           THEN NonFiller(LastTermSet) ELSE LastTermSet
        /\ LastTry.terms # <<>>

\* C21 amended: the term sequence used is the term-set with the filler words
\* and the terms of one character removed when at least two terms remain
\* after that, and the unfiltered term-set otherwise; no other term is
\* removed, and the sequence used is never empty.
C21_TermsUsed ==
    (tool = "classify_device" /\ tries # <<>>) =>
        /\ LastTry.terms = IF Len(LongNonFiller(LastTermSet)) >= 2
                           THEN LongNonFiller(LastTermSet) ELSE LastTermSet
        /\ LastTry.terms # <<>>

\* a one-character term that is no filler word was dropped
C21_Witness ==
    /\ tool = "classify_device" /\ tries # <<>>
    /\ LastTermSet = <<"x", "glucose", "Monitor">>
    /\ LastTry.terms = <<"glucose", "Monitor">>

\* this step issues a primary-search invocation
PrimaryIssued ==
    /\ Len(calls') = Len(calls) + 1
    /\ calls'[Len(calls')].site = "primary"
    /\ nCalls' = nCalls + 1

\* C22: at every point of the broadening loop the call counter equals the
\* number of primary-search invocations issued so far in this call of the
\* handler: it grows by exactly one with each invocation, whatever that
\* invocation returns, and never changes otherwise.
C22_CallCounter ==
    /\ [](tool = "classify_device" =>
            /\ apiCalls = Len(tries)
            /\ apiCalls = Cardinality({i \in 1..Len(calls) : calls[i].site = "primary"}))
    /\ [][IF PrimaryIssued THEN apiCalls' = apiCalls + 1 ELSE apiCalls' = apiCalls]_vars

\* counted after an error, and left alone by the requests of the bridge
C22_Witness ==
    /\ tool = "classify_device" /\ pc = "lookup"
    /\ apiCalls = 6 /\ Len(tries) = 6
    /\ nCalls > apiCalls + 1
    /\ calls[6].site = "primary" /\ calls[7].site = "bridge"

\* C23: within one call of the handler a primary-search query (same field,
\* same term list) that returned an error or no candidates is never issued
\* a second time, also not across the expanded and the original term-set.
\* Stated of the query issued last while no query so far has returned
\* candidates.
C23_NoRepeat ==
    (tool = "classify_device" /\ pc = "primary" /\ ~sawCandidates) =>
        \A j \in 1..(Len(tries) - 1) :
            ~(tries[j].combo = LastTry.combo /\ tries[j].field = LastTry.field)

\* the candidates of both term-sets in order, each key once
RECURSIVE OncePerKey(_, _, _)
OncePerKey(cands, keys, acc) ==
    IF Len(cands) = 0 THEN acc
    ELSE IF BridgeKey(Head(cands)) \in keys THEN OncePerKey(Tail(cands), keys, acc)
    ELSE OncePerKey(Tail(cands), keys \cup {BridgeKey(Head(cands))}, Append(acc, Head(cands)))

BridgeCandidates ==
    OncePerKey(BridgeTopCombos(expandedTerms) \o BridgeTopCombos(TypedTerms), {}, <<>>)

\* the 510(k) queries issued so far, in order
BridgeQueries == SelectSeq(calls, LAMBDA c : c.site = "bridge")

\* the lookups of the current candidate are over with this step
LastLookupAnswers == pc = "lookup" /\ codeIdx = Len(productCodes)

\* C25: the bridge stops at the first candidate query for which at least one
\* discovered code resolves by lookup, returns Bridged for that candidate and
\* issues no 510(k) query afterwards; it returns nothing (the call ends
\* Unresolved) if and only if every candidate query of both term-sets
\* errored, returned nothing, carried no valid code or had all its lookups fail.
C25_BridgeStops ==
    /\ [](tool = "classify_device" =>
            /\ (pc = "done" /\ outcome = "Bridged") =>
                /\ classificationResults # <<>>
                /\ response.classifications = classificationResults
                /\ calls[Len(calls)] = BridgeCall(BridgeCandidates[Len(BridgeQueries)])
                /\ response.url = calls[Len(calls)]
                /\ Len(lookupCalls) = Len(productCodes)
            /\ (pc = "done" /\ outcome = "Unresolved") =>
                /\ classificationResults = <<>>
                /\ BridgeQueries = [k \in 1..Len(BridgeCandidates) |->
                                        BridgeCall(BridgeCandidates[k])]
            /\ pc = "bridge" =>
                pending = BridgeCall(BridgeCandidates[Len(BridgeQueries)]))
    /\ [][(tool = "classify_device" /\ LastLookupAnswers) =>
            IF classificationResults # <<>> \/ Candidates(lastData')
            THEN pc' = "done" /\ outcome' = "Bridged" /\ calls' = calls
            ELSE \/ pc' = "bridge" /\ Len(calls') = Len(calls) + 1
                 \/ pc' = "done" /\ outcome' = "Unresolved"]_vars
    /\ [][(tool = "classify_device" /\ pc = "bridge"
            /\ ~(Candidates(lastData') /\ \E i \in 1..Len(lastData'.results) :
                    ThreeLetters(lastData'.results[i].product_code)))
          => \/ pc' = "bridge" /\ Len(calls') = Len(calls) + 1
             \/ pc' = "done" /\ outcome' = "Unresolved"]_vars

\* Bridged by a candidate of the second term-set, one of its two lookups having failed
C25_Witness ==
    /\ pc = "done" /\ outcome = "Bridged"
    /\ bTsIdx = 2 /\ Len(BridgeQueries) > 2
    /\ Len(productCodes) = 2 /\ Len(classificationResults) = 1
    /\ ~Candidates(lastData)

\* the distinct valid codes of a 510(k) response, and the records carrying one
ValidCodes(data) ==
    {toUpperCase(data.results[i].product_code) :
        i \in {j \in 1..Len(data.results) : ThreeLetters(data.results[j].product_code)}}

Carriers(data, code) ==
    {i \in 1..Len(data.results) : toUpperCase(data.results[i].product_code) = code}

\* C26: for each non-empty 510(k) response the bridge performs exactly one
\* lookup per distinct valid product code of the response, however many
\* records share a code; the count recorded for each code is the number of
\* records of the response carrying it.
C26_OneLookupPerCode ==
    /\ [](pc = "lookup" \/ (pc = "done" /\ outcome = "Bridged") =>
            /\ Candidates(bridgeData)
            /\ Len(productCodes) = Cardinality(ValidCodes(bridgeData))
            /\ {productCodes[k].code : k \in 1..Len(productCodes)} = ValidCodes(bridgeData)
            /\ \A k \in 1..Len(productCodes) :
                productCodes[k].count = Cardinality(Carriers(bridgeData, productCodes[k].code))
            /\ Len(lookupCalls) = codeIdx
            /\ \A k \in 1..Len(lookupCalls) :
                lookupCalls[k] = LookupCall(productCodes[k].code)
            /\ pc = "done" => Len(lookupCalls) = Cardinality(ValidCodes(bridgeData)))
    /\ [][(tool = "classify_device" /\ pc = "lookup" /\ pc' # "lookup")
            => Len(lookupCalls) = Cardinality(ValidCodes(bridgeData))]_vars
    /\ [][(tool = "classify_device" /\ pc = "bridge" /\ Candidates(lastData'))
            => IF ValidCodes(lastData') = {}
               THEN pc' # "lookup" /\ lookupCalls' = <<>>
               ELSE pc' = "lookup" /\ bridgeData' = lastData' /\ Len(lookupCalls') = 1]_vars

\* three records, two codes, one of them written in two letter cases
C26_Witness ==
    /\ pc = "done" /\ outcome = "Bridged"
    /\ bridgeData.results = <<k1, k3, k2>>
    /\ Len(lookupCalls) = 2
    /\ productCodes[1].code = "DPS" /\ productCodes[1].count = 2
    /\ productCodes[2].code = "NBW" /\ productCodes[2].count = 1

\* the term-set the bridge is walking
BridgeTerms == IF bTsIdx = 1 THEN expandedTerms ELSE TypedTerms

MultiTerm(terms) == SelectSeq(generateCombinations(terms), LAMBDA c : Len(c) >= 2)

SpecificSingles(terms) ==
    SelectSeq(terms, LAMBDA t : toLowerCase(t) \notin GENERIC_510K_TERMS /\ Len(t) >= 5)

\* C27: for each of the two term-sets the bridge's candidates are the first 8
\* combinations of two or more terms in generator order, then each single
\* non-generic term of at least 5 characters; candidates are queried in that
\* order, a 510(k) query is never issued twice in a call, and a term-set gets
\* at most 8 queries of more than one term.
C27_BridgeCandidates ==
    /\ [](tool = "classify_device" /\ pc \in {"bridge", "lookup"} =>
            LET multi == MultiTerm(BridgeTerms)
                nm == IF Len(multi) < 8 THEN Len(multi) ELSE 8
                singles == SpecificSingles(BridgeTerms)
                last == BridgeQueries[Len(BridgeQueries)]
            IN  /\ topCombos = [k \in 1..(nm + Len(singles)) |->
                                    IF k <= nm THEN multi[k] ELSE <<singles[k - nm]>>]
                /\ bComboIdx \in 1..Len(topCombos)
                /\ last = BridgeCall(topCombos[bComboIdx])
                /\ \A i \in 1..(Len(BridgeQueries) - 1) : BridgeQueries[i] # last
                /\ Len(topCombos[bComboIdx]) >= 2 => bComboIdx <= 8)
    /\ [][(tool = "classify_device" /\ pc \in {"bridge", "lookup"} /\ pc' = "bridge")
            => \/ bTsIdx' = bTsIdx /\ bComboIdx' > bComboIdx
               \/ bTsIdx = 1 /\ bTsIdx' = 2]_vars

\* a four-term expanded set has 11 combinations of two or more terms: 8 are
\* queried, then its 3 specific singles; the typed set adds 4 fresh queries
\* and skips the single already queried
C27_Witness ==
    /\ pc = "bridge" /\ bTsIdx = 2
    /\ Len(MultiTerm(expandedTerms)) = 11
    /\ Len(BridgeQueries) = 15
    /\ bComboIdx = 4
    /\ Len(topCombos) = 5

RECURSIVE Flatten(_)
Flatten(seqs) == IF Len(seqs) = 0 THEN <<>> ELSE Head(seqs) \o Flatten(Tail(seqs))

\* what the claim puts in the place of one term, before duplicates are dropped
Replacement(term) ==
    IF toLowerCase(term) \in DOMAIN SYNONYMS
    THEN Flatten([k \in 1..Len(SYNONYMS[toLowerCase(term)]) |->
                    splitWs(SYNONYMS[toLowerCase(term)][k])])
    ELSE <<term>>

\* the elements of s that equal no earlier element case-insensitively
FirstAppearances(s) ==
    LET keep == {i \in 1..Len(s) :
                    \A j \in 1..(i - 1) : toLowerCase(s[j]) # toLowerCase(s[i])}
        pick[i \in 0..Len(s)] ==
            IF i = 0 THEN <<>>
            ELSE IF i \in keep THEN Append(pick[i - 1], s[i]) ELSE pick[i - 1]
    IN  pick[Len(s)]

\* C28: for every input term sequence expandSynonyms returns the terms, each
\* one with a table entry replaced by the whitespace-split words of its
\* replacement phrases and every other kept as is, without the elements that
\* equal an earlier one case-insensitively, in order of first appearance.
C28_Expansion ==
    ExpandDone =>
        /\ ~unitOut.threw
        /\ unitOut.value =
            FirstAppearances(Flatten([k \in 1..Len(unitIn.terms) |-> Replacement(unitIn.terms[k])]))

\* the same, for the inputs on which expandSynonyms returns
C28_WhenItReturns ==
    (ExpandDone /\ ~unitOut.threw) =>
        unitOut.value =
            FirstAppearances(Flatten([k \in 1..Len(unitIn.terms) |-> Replacement(unitIn.terms[k])]))

Occurrences(s, x) == Cardinality({i \in 1..Len(s) : s[i] = x})

IsPermutation(s, t) ==
    /\ Len(s) = Len(t)
    /\ \A i \in 1..Len(t) : Occurrences(s, t[i]) = Occurrences(t, t[i])

\* C29: for every term-set of one or more terms, the attempt list the
\* broadening loop walks is a permutation of generateCombinations' output
\* for the terms used: no combination is left out and none is repeated.
C29_AttemptsPermutation ==
    (tool = "classify_device" /\ pc = "primary") =>
        IsPermutation(combos, generateCombinations(termsToUse))

\* the same, for the term-sets of two or more terms
C29_TwoOrMoreTerms ==
    (tool = "classify_device" /\ pc = "primary" /\ Len(termsToUse) >= 2) =>
        IsPermutation(combos, generateCombinations(termsToUse))

\* the query is one three-letter token and nothing else is given
CodeLikeQuery ==
    /\ tool = "classify_device" /\ args.product_code = ""
    /\ Len(SelectSeq(splitWs(trim(args.query)), LAMBDA t : t # "")) = 1
    /\ ThreeLetters(trim(args.query))

\* C30: a query that is a single three-letter token goes to the Direct
\* lookup even when the token is a key of the synonym table: the table is not
\* consulted, exactly one request is issued, and the outcome is never Strong,
\* Weak, Bridged or the suggestion fallback.
C30_CodeLikeQueryIsDirect ==
    CodeLikeQuery =>
        /\ pc \in {"direct", "done"}
        /\ product_code = toUpperCase(trim(args.query)) /\ query = ""
        /\ expandedTerms = <<>> /\ tries = <<>> /\ seen510k = {}
        /\ nCalls = 1 /\ Len(calls) = 1 /\ calls[1].site = "direct"
        /\ outcome \notin {"Strong", "Weak", "Bridged", "Unresolved"}
        /\ pc = "done" => outcome \in {"Direct", "NotFound", "Error"}

\* a synonym-table key answered by the Direct lookup
C30_Witness ==
    /\ pc = "done" /\ CodeLikeQuery
    /\ toLowerCase(args.query) \in {"ecg", "app"}
    /\ toLowerCase(args.query) \in DOMAIN SYNONYMS
    /\ outcome = "Direct" /\ nCalls = 1

Awaiting(p) == p \in {"direct", "primary", "bridge", "lookup", "search"}

TermsOf(f) ==
    LET typed == splitWs(trim(f.args.query))
    IN  {typed[k] : k \in 1..Len(typed)} \cup {f.expandedTerms[k] : k \in 1..Len(f.expandedTerms)}

\* what holds of the locals f of one call, whatever another call does
OwnCall(f) ==
    /\ f.nCalls - f.nAnswered = (IF Awaiting(f.pc) THEN 1 ELSE 0)
    /\ (f.pending # NoCall) = Awaiting(f.pc)
    /\ f.apiCalls = Len(f.tries) /\ f.apiCalls <= MAX_API_CALLS
    /\ \A i \in 1..Len(f.tries) :
        \A k \in 1..Len(f.tries[i].combo) : f.tries[i].combo[k] \in TermsOf(f)
    /\ f.pc = "primary" =>
        f.pending = PrimaryCall(f.tries[Len(f.tries)].combo, f.tries[Len(f.tries)].field)

\* C24: in one call at most one queryOpenFDA invocation is in flight: an
\* invocation is issued only in the step that receives the answer to the
\* previous one (or at the start), and an attempt of the broadening loop
\* begins only when the previous attempt has been answered and evaluated.
\* Two calls share nothing: a step of one call leaves the other call's
\* locals as they are, and each call's counter counts its own attempts.
C24_OneAtATime ==
    /\ [](OwnCall(CallFrame) /\ OwnCall(other))
    /\ [][callNo' = callNo =>
            /\ other' = other
            /\ nCalls' \in {nCalls, nCalls + 1}
            /\ nCalls' = nCalls + 1 => nAnswered' = nCalls
            /\ Len(tries') \in {Len(tries), Len(tries) + 1}
            /\ Len(tries') = Len(tries) + 1 => nAnswered' = nCalls /\ pc \in {"idle", "primary"}]_vars
    /\ [][callNo' # callNo => other' = CallFrame /\ CallFrame' = other]_vars

\* both calls are in their broadening loops, with different counters
C24_Witness ==
    /\ pc = "primary" /\ other.pc = "primary"
    /\ args.query = "glucose" /\ other.args.query = "Monitor"
    /\ apiCalls = 1 /\ other.apiCalls = 3
    /\ callNo = 2

====
